---------------------------- MODULE Spec2Model ----------------------------
(***************************************************************************)
(* Model of the movie identity-resolution pipeline:                        *)
(*   movie_estandarizer/estandarizer.py   (MovieStandardizer)              *)
(*   movie_estandarizer/movie_enricher.py (MovieEnricher)                  *)
(*   parche_output/GOAT_enrichment.py     (GOATMovieEnricher)              *)
(*   final_check/*.py                     (final processors)               *)
(*                                                                         *)
(* Strings are sequences of one-character strings, so that the regular     *)
(* expressions of the source act on characters as they do in Python.       *)
(***************************************************************************)
EXTENDS Integers, Sequences, FiniteSets, TLC

VARIABLES
    \* ---- Normalizer (pure functions of MovieStandardizer) ----
    names,                  \* <<A, B>>: two raw MOVIE_NAME strings
    relation,               \* how A was derived from B: "run", "punct", "article"
    nstage,                 \* "raw", "l1", "l2", "key", "rekey"
    titulo_limpio,          \* <<l1(A), l1(B)>>
    nombre_original_clean,  \* <<l2(l1(A)), l2(l1(B))>>
    nombre_unico,           \* canonical keys
    rekeyed,                \* generate_unique_name applied to the keys again
    \* ---- MovieStandardizer.process_all_records / process ----
    std_mode,               \* "all_records" or "process"
    std_pc,                 \* position in the method
    input_rows,             \* MOVIE_NAME column of the input file
    template_rows,          \* pre-existing catalog file: rows (NOMBRE_UNICO, MOVIE_ID)
    read_pos,               \* rows of the input file consumed by the current pass
    unique_catalog,         \* process_all_records: key -> catalog entry
    movie_id_counter,       \* process_all_records: next ID to allocate
    unique_to_id,           \* process: key -> MOVIE_ID
    next_movie_id,          \* process: next ID to allocate
    all_records,            \* process: processed chunks, concatenated
    output,                 \* rows of the output file
    \* ---- propagation and enrichment over a table (MovieEnricher, GOAT, final_check) ----
    pipeline,               \* "MovieEnricher", "GOAT", "Master", "Enhanced"
    prop_pc,                \* next step of the pipeline
    df,                     \* the table being processed
    df_before,              \* the table as the last step received it
    last_step,              \* the step that produced df from df_before
    enrich_queue,           \* canonical names still to be looked up
    enriched_data,          \* GOAT enrich_movies: name -> search result
    \* ---- GOATMovieEnricher.comprehensive_search ----
    cache,                  \* self.cache: md5(name) -> merged result
    invoked,                \* <<name, source>> -> number of adapter calls
    ncalls,                 \* comprehensive_search calls made
    last_search,            \* what the last call received and returned
    \* ---- category normalization of the final processors ----
    cat_proc,               \* "Master" or "Enhanced"
    cat_pc,                 \* "raw" or "done"
    cat_text,               \* the CATEGORIA cell read from the file
    categoria,              \* CATEGORIA after normalization
    categoria_cinepolis,    \* CATEGORIA_CINEPOLIS after normalization
    \* ---- quality validation (validate_dataset, final processors) ----
    validator,              \* the validation function that runs
    val_pc,                 \* "loaded" or "done"
    val_df,                 \* the table given to the validator
    validations,            \* the results of its checks
    \* ---- MovieStandardizer.detect_family ----
    fam_title,              \* the level-2 title given to detect_family
    familia,                \* the results of applying it once and twice
    \* ---- MovieStandardizer.extract_format / extract_language ----
    row_name,               \* MOVIE_NAME of the row
    row_format,             \* MOVIE_FORMAT of the row
    row_lenguaje,           \* MOVIE_LENGUAJE of the row
    attr_pc,                \* "start", "format", "done"
    formato,                \* FORMATO
    idioma,                 \* IDIOMA
    \* ---- outbound queries and delays of the enrichment loops ----
    rate_proc,              \* the enricher whose loop runs
    rate_queue,             \* the names still to look up
    lookup_cache,           \* GOATMovieEnricher.cache, or the local cache of enrich_missing_data
    net_log,                \* the outbound queries and the delays, in order
    \* ---- the input file of MovieStandardizer ----
    input_file              \* missing, unreadable, no_columns or ok

normVars == <<names, relation, nstage, titulo_limpio, nombre_original_clean,
              nombre_unico, rekeyed>>

stdVars == <<std_mode, std_pc, input_rows, template_rows, read_pos,
             unique_catalog, movie_id_counter, unique_to_id, next_movie_id,
             all_records, output>>

propVars == <<pipeline, prop_pc, df, df_before, last_step, enrich_queue,
              enriched_data>>

goatVars == <<cache, invoked, ncalls, last_search>>

catVars == <<cat_proc, cat_pc, cat_text, categoria, categoria_cinepolis>>

valVars == <<validator, val_pc, val_df, validations>>

famVars == <<fam_title, familia>>

attrVars == <<row_name, row_format, row_lenguaje, attr_pc, formato, idioma>>

rateVars == <<rate_proc, rate_queue, lookup_cache, net_log>>

fileVars == <<input_file>>

vars == <<normVars, stdVars, propVars, goatVars, catVars, valVars, famVars, attrVars, rateVars, fileVars>>

othersNorm == <<stdVars, propVars, goatVars, catVars, valVars, famVars, attrVars, rateVars, fileVars>>
othersStd == <<normVars, propVars, goatVars, catVars, valVars, famVars, attrVars, rateVars, fileVars>>
othersProp == <<normVars, stdVars, catVars, valVars, famVars, attrVars, rateVars, fileVars>>
othersGoat == <<normVars, stdVars, propVars, catVars, valVars, famVars, attrVars, rateVars, fileVars>>
othersCat == <<normVars, stdVars, propVars, goatVars, valVars, famVars, attrVars, rateVars, fileVars>>
othersVal == <<normVars, stdVars, propVars, goatVars, catVars, famVars, attrVars, rateVars, fileVars>>
othersFam == <<normVars, stdVars, propVars, goatVars, catVars, valVars, attrVars, rateVars, fileVars>>
othersAttr == <<normVars, stdVars, propVars, goatVars, catVars, valVars, famVars, rateVars, fileVars>>

-----------------------------------------------------------------------------
(* Characters and strings *)

Digits == {"0", "1", "2", "3", "4", "5", "6", "7", "8", "9"}

\* pd.isna(x): the missing value of pandas
NaN == <<"<NaN>">>

PunctChars == {":", "-", "!", ".", ","}

IsSpace(c) == c = " "

\* \w of Python's re: letters, digits and underscore
IsWord(c) == ~IsSpace(c) /\ c \notin PunctChars

\* str.upper() on one character
UpperChar(c) ==
    CASE c = "a" -> "A" [] c = "b" -> "B" [] c = "d" -> "D" [] c = "e" -> "E"
      [] c = "l" -> "L" [] c = "n" -> "N" [] c = "o" -> "O" [] c = "p" -> "P"
      [] c = "s" -> "S" [] c = "u" -> "U" [] c = "x" -> "X"
      [] OTHER -> c

\* str.upper()
Upper(s) == [i \in 1..Len(s) |-> UpperChar(s[i])]

RECURSIVE LStrip(_)
LStrip(s) == IF s # <<>> /\ IsSpace(Head(s)) THEN LStrip(Tail(s)) ELSE s

RECURSIVE RStrip(_)
RStrip(s) == IF s # <<>> /\ IsSpace(s[Len(s)])
             THEN RStrip(SubSeq(s, 1, Len(s) - 1)) ELSE s

\* str.strip()
Strip(s) == LStrip(RStrip(s))

\* re.sub(r'\s+', ' ', s)
RECURSIVE CollapseWS(_)
CollapseWS(s) ==
    IF s = <<>> THEN <<>>
    ELSE IF IsSpace(Head(s)) THEN <<" ">> \o CollapseWS(LStrip(Tail(s)))
    ELSE <<Head(s)>> \o CollapseWS(Tail(s))

\* re.sub(r'[^\w\s]', ' ', s)
ReplacePunct(s) ==
    [i \in 1..Len(s) |-> IF IsWord(s[i]) \/ IsSpace(s[i]) THEN s[i] ELSE " "]

\* s[i..] starts with tok, ignoring case
MatchesAt(s, i, tok) ==
    /\ i >= 1
    /\ i + Len(tok) - 1 <= Len(s)
    /\ Upper(SubSeq(s, i, i + Len(tok) - 1)) = Upper(tok)

\* re.sub(r'\s+TOK$', '', s, flags=re.IGNORECASE)
RemoveTrailing(s, tok) ==
    LET at == Len(s) - Len(tok) + 1
    IN IF at >= 2 /\ MatchesAt(s, at, tok) /\ IsSpace(s[at - 1])
       THEN RStrip(SubSeq(s, 1, at - 1))
       ELSE s

\* re.sub(r'\s+TOK.*$', '', s, flags=re.IGNORECASE): the leftmost whitespace
\* run that is followed by TOK, and everything after it
CutFrom(s, tok) ==
    LET starts == {i \in 1..Len(s) :
                     /\ IsSpace(s[i])
                     /\ \E j \in (i + 1)..Len(s) :
                          /\ \A k \in i..(j - 1) : IsSpace(s[k])
                          /\ MatchesAt(s, j, tok)}
    IN IF starts = {} THEN s
       ELSE SubSeq(s, 1, (CHOOSE i \in starts : \A k \in starts : i <= k) - 1)

RECURSIVE ApplyTrailing(_, _)
ApplyTrailing(s, pats) ==
    IF pats = <<>> THEN s
    ELSE ApplyTrailing(RemoveTrailing(s, Head(pats)), Tail(pats))

RECURSIVE ApplyCut(_, _)
ApplyCut(s, pats) ==
    IF pats = <<>> THEN s ELSE ApplyCut(CutFrom(s, Head(pats)), Tail(pats))

\* join tokens with single spaces
RECURSIVE Join(_)
Join(toks) ==
    IF toks = <<>> THEN <<>>
    ELSE IF Len(toks) = 1 THEN toks[1]
    ELSE toks[1] \o <<" ">> \o Join(Tail(toks))

-----------------------------------------------------------------------------
(* MovieStandardizer: patterns and the three normalization levels *)

LANGUAGE_PATTERNS ==
    << <<"E","S","P">>, <<"S","U","B">>, <<"D","U","B">>, <<"D","O","B">>,
       <<"S","P">>,
       <<"E","s","p">>, <<"S","u","b">>, <<"D","u","b">>, <<"D","o","b">>,
       <<"S","p">> >>

FORMAT_PATTERNS ==
    << <<"4","D","X">>, <<"I","M","A","X">>,
       <<"S","C","R","E","E","N","X">>, <<"X","E">>,
       <<"3","D">>, <<"2","D">>, <<"4","D">> >>

normalize_title_level1(movie_name) ==
    IF movie_name = NaN \/ movie_name = <<>> THEN <<>>
    ELSE CollapseWS(Strip(Upper(movie_name)))

normalize_title_level2(titulo) ==
    IF titulo = NaN \/ titulo = <<>> THEN <<>>
    ELSE CollapseWS(Strip(
            ApplyCut(ApplyTrailing(titulo, LANGUAGE_PATTERNS), FORMAT_PATTERNS)))

ARTICLES ==
    << <<"T","H","E">>, <<"L","A">>, <<"E","L">>, <<"L","O","S">>,
       <<"L","A","S">>, <<"U","N">>, <<"U","N","A">> >>

\* re.sub(r'^(THE|LA|EL|LOS|LAS|UN|UNA)\s+', '', s), case-sensitive
StripLeadingArticle(s) ==
    LET hits == {i \in 1..Len(ARTICLES) :
                   /\ Len(s) > Len(ARTICLES[i])
                   /\ SubSeq(s, 1, Len(ARTICLES[i])) = ARTICLES[i]
                   /\ IsSpace(s[Len(ARTICLES[i]) + 1])}
    IN IF hits = {} THEN s
       ELSE LET a == CHOOSE i \in hits : \A k \in hits : i <= k
            IN LStrip(SubSeq(s, Len(ARTICLES[a]) + 1, Len(s)))

generate_unique_name(clean_title) ==
    IF clean_title = NaN \/ clean_title = <<>> THEN <<>>
    ELSE Strip(StripLeadingArticle(CollapseWS(ReplacePunct(
            ApplyCut(ApplyTrailing(Upper(clean_title), LANGUAGE_PATTERNS),
                     FORMAT_PATTERNS)))))

-----------------------------------------------------------------------------
(* Normalizer inputs: raw names built from tokens *)

MaxRun == 4        \* longest trailing run of marker tokens

tDUNE  == <<"D","U","N","E">>
tDune  == <<"D","u","n","e">>
tLA    == <<"L","A">>
tLAND  == <<"L","A","N","D">>
tEL    == <<"E","L">>
tREY   == <<"R","E","Y">>
tDOS   == <<"D","O","S">>

Titles == { <<tDUNE>>, <<tDune, tDOS>>, <<tLA, tLA, tLAND>>, <<tEL, tREY>> }

Markers == { <<"E","S","P">>, <<"S","U","B">>, <<"D","O","B">>,
             <<"3","D">>, <<"4","D","X">> }

MarkerRuns == UNION { [1..n -> Markers] : n \in 1..MaxRun }

RunInputs ==
    { [a |-> Join(T \o S), b |-> Join(T), rel |-> "run"] :
        T \in Titles, S \in MarkerRuns }

ArticleInputs ==
    { [a |-> ARTICLES[i] \o <<" ">> \o Join(T), b |-> Join(T), rel |-> "article"] :
        i \in 1..Len(ARTICLES), T \in Titles }

\* A differs from B by one punctuation character attached to a word
PunctInputs ==
    UNION { { [a |-> Join([T EXCEPT ![i] = <<p>> \o T[i]]), b |-> Join(T),
               rel |-> "punct"] : i \in 1..Len(T), p \in PunctChars }
            \cup
            { [a |-> Join([T EXCEPT ![i] = T[i] \o <<p>>]), b |-> Join(T),
               rel |-> "punct"] : i \in 1..Len(T), p \in PunctChars }
          : T \in Titles }

NormInputs == RunInputs \cup ArticleInputs \cup PunctInputs

\* the normalizer's variables when another part of the pipeline is checked
IdleNorm ==
    /\ names = <<NaN, NaN>>
    /\ relation = "none"
    /\ nstage = "idle"
    /\ titulo_limpio = <<NaN, NaN>>
    /\ nombre_original_clean = <<NaN, NaN>>
    /\ nombre_unico = <<NaN, NaN>>
    /\ rekeyed = <<NaN, NaN>>

IdleProp ==
    /\ pipeline = "none"
    /\ prop_pc = "idle"
    /\ df = <<>>
    /\ df_before = <<>>
    /\ last_step = "none"
    /\ enrich_queue = <<>>
    /\ enriched_data = <<>>
othersRate == <<normVars, stdVars, propVars, goatVars, catVars, valVars, famVars, attrVars, fileVars>>
othersFile == <<normVars, stdVars, propVars, goatVars, catVars, valVars, famVars, attrVars, rateVars>>

NoSearch == [kind |-> "none"]

IdleRate ==
    /\ rate_proc = "none"
    /\ rate_queue = <<>>
    /\ lookup_cache = <<>>
    /\ net_log = <<>>

IdleFile ==
    /\ input_file = "ok"

IdleFam ==
    /\ fam_title = NaN
    /\ familia = <<>>

IdleAttr ==
    /\ row_name = NaN
    /\ row_format = NaN
    /\ row_lenguaje = NaN
    /\ attr_pc = "idle"
    /\ formato = NaN
    /\ idioma = NaN

IdleVal ==
    /\ validator = "none"
    /\ val_pc = "idle"
    /\ val_df = <<>>
    /\ validations = <<>>

IdleCat ==
    /\ cat_proc = "none"
    /\ cat_pc = "idle"
    /\ cat_text = NaN
    /\ categoria = NaN
    /\ categoria_cinepolis = NaN

IdleGoat ==
    /\ cache = <<>>
    /\ invoked = <<>>
    /\ ncalls = 0
    /\ last_search = NoSearch

IdleStd ==
    /\ std_mode = "none"
    /\ std_pc = "idle"
    /\ input_rows = <<>>
    /\ template_rows = <<>>
    /\ read_pos = 0
    /\ unique_catalog = <<>>
    /\ movie_id_counter = 1
    /\ unique_to_id = <<>>
    /\ next_movie_id = 1
    /\ all_records = <<>>
    /\ output = <<>>

InitNorm ==
    /\ \E inp \in NormInputs :
         /\ names = <<inp.a, inp.b>>
         /\ relation = inp.rel
    /\ nstage = "raw"
    /\ titulo_limpio = <<NaN, NaN>>
    /\ nombre_original_clean = <<NaN, NaN>>
    /\ nombre_unico = <<NaN, NaN>>
    /\ rekeyed = <<NaN, NaN>>
    /\ IdleStd /\ IdleProp /\ IdleGoat /\ IdleCat /\ IdleVal /\ IdleFam /\ IdleAttr /\ IdleRate /\ IdleFile

\* process_batch: TITULO_LIMPIO = MOVIE_NAME.apply(normalize_title_level1)
NormalizeL1 ==
    /\ nstage = "raw"
    /\ titulo_limpio' = <<normalize_title_level1(names[1]), normalize_title_level1(names[2])>>
    /\ nstage' = "l1"
    /\ UNCHANGED <<names, relation, nombre_original_clean, nombre_unico, rekeyed>>
    /\ UNCHANGED othersNorm

\* process_batch: NOMBRE_ORIGINAL_CLEAN = TITULO_LIMPIO.apply(normalize_title_level2)
NormalizeL2 ==
    /\ nstage = "l1"
    /\ nombre_original_clean' = <<normalize_title_level2(titulo_limpio[1]), normalize_title_level2(titulo_limpio[2])>>
    /\ nstage' = "l2"
    /\ UNCHANGED <<names, relation, titulo_limpio, nombre_unico, rekeyed>>
    /\ UNCHANGED othersNorm

\* process_batch: NOMBRE_UNICO = NOMBRE_ORIGINAL_CLEAN.apply(generate_unique_name)
GenerateUniqueName ==
    /\ nstage = "l2"
    /\ nombre_unico' = <<generate_unique_name(nombre_original_clean[1]), generate_unique_name(nombre_original_clean[2])>>
    /\ nstage' = "key"
    /\ UNCHANGED <<names, relation, titulo_limpio, nombre_original_clean, rekeyed>>
    /\ UNCHANGED othersNorm

\* generate_unique_name applied to an already canonical key
Recanonicalize ==
    /\ nstage = "key"
    /\ rekeyed' = <<generate_unique_name(nombre_unico[1]), generate_unique_name(nombre_unico[2])>>
    /\ nstage' = "rekey"
    /\ UNCHANGED <<names, relation, titulo_limpio, nombre_original_clean, nombre_unico>>
    /\ UNCHANGED othersNorm

NextNorm == NormalizeL1 \/ NormalizeL2 \/ GenerateUniqueName \/ Recanonicalize

SpecNorm == InitNorm /\ [][NextNorm]_vars

-----------------------------------------------------------------------------
(* Claims about the normalizer *)

\* C2: a raw name 'T S', S a trailing run of format/language marker tokens,
\* gets the same canonical key as T alone.
C2_MarkerRunSameKey ==
    (nstage \in {"key", "rekey"} /\ relation = "run")
        => nombre_unico[1] = nombre_unico[2]

\* C3: generate_unique_name is idempotent: applied to a key it has produced,
\* it returns that key unchanged.
C3_KeyIdempotent ==
    nstage = "rekey" => rekeyed = nombre_unico

\* C4: two raw names that differ only by a punctuation character, or only by
\* one leading article, get the same canonical key.
C4_PunctArticleSameKey ==
    (nstage \in {"key", "rekey"} /\ relation \in {"punct", "article"})
        => nombre_unico[1] = nombre_unico[2]

-----------------------------------------------------------------------------
(* MovieStandardizer.process_all_records and MovieStandardizer.process *)

MaxRecords == 3    \* rows of the input file
ChunkSize == 2     \* rows per chunk of pd.read_csv(chunksize=...)

Max(a, b) == IF a >= b THEN a ELSE b
Min(a, b) == IF a <= b THEN a ELSE b

\* str(x): a missing value prints as 'nan'
Str(x) == IF x = NaN THEN <<"n","a","n">> ELSE x

\* pass 1 of process_all_records: TITULO_LIMPIO is MOVIE_NAME.str.upper(),
\* then level 2 and level 3; the catalog key is str(NOMBRE_UNICO).upper()
Pass1Key(movie_name) ==
    Upper(Str(generate_unique_name(normalize_title_level2(Upper(movie_name)))))

\* one row of process_batch
process_batch(movie_name) ==
    LET l1 == normalize_title_level1(movie_name)
        l2 == normalize_title_level2(l1)
    IN [MOVIE_NAME |-> movie_name,
        TITULO_LIMPIO |-> l1,
        NOMBRE_ORIGINAL_CLEAN |-> l2,
        NOMBRE_UNICO |-> generate_unique_name(l2)]

\* the next chunk of the input file, and chunk[chunk['MOVIE_NAME'].notna()]
NextChunk(rows, pos) == SubSeq(rows, pos + 1, Min(pos + ChunkSize, Len(rows)))
NotNa(chunk) == SelectSeq(chunk, LAMBDA n : n # NaN)

\* loading the template catalog: the first row of each key enters the catalog
RECURSIVE LoadTemplateRows(_, _, _)
LoadTemplateRows(rows, cat, ctr) ==
    IF rows = <<>> THEN [cat |-> cat, ctr |-> ctr]
    ELSE LET row == Head(rows)
             nu == Upper(Str(row.NOMBRE_UNICO))
         IN IF nu # <<>> /\ nu \notin DOMAIN cat
            THEN LoadTemplateRows(Tail(rows),
                                  (nu :> [MOVIE_ID |-> row.MOVIE_ID]) @@ cat,
                                  Max(ctr, row.MOVIE_ID + 1))
            ELSE LoadTemplateRows(Tail(rows), cat, ctr)

\* pass 1 over one chunk: each new non-empty key gets the counter's value
RECURSIVE ScanChunk(_, _, _)
ScanChunk(chunk, cat, ctr) ==
    IF chunk = <<>> THEN [cat |-> cat, ctr |-> ctr]
    ELSE LET nu == Pass1Key(Head(chunk))
         IN IF nu # <<>> /\ nu \notin DOMAIN cat
            THEN ScanChunk(Tail(chunk), (nu :> [MOVIE_ID |-> ctr]) @@ cat, ctr + 1)
            ELSE ScanChunk(Tail(chunk), cat, ctr)

\* pass 2 over one chunk: unique_catalog.get(key, {}).get('MOVIE_ID', 0)
AssignChunk(chunk, cat) ==
    [i \in 1..Len(chunk) |->
        LET row == process_batch(chunk[i])
            nu == Upper(row.NOMBRE_UNICO)
        IN [MOVIE_ID |-> IF nu \in DOMAIN cat THEN cat[nu].MOVIE_ID ELSE 0,
            MOVIE_NAME |-> row.MOVIE_NAME,
            NOMBRE_UNICO |-> row.NOMBRE_UNICO]]

\* process: unique_to_id[str(NOMBRE_UNICO).upper()] = MOVIE_ID, row by row
RECURSIVE LoadExisting(_, _)
LoadExisting(rows, m) ==
    IF rows = <<>> THEN m
    ELSE LoadExisting(Tail(rows),
            (Upper(Str(Head(rows).NOMBRE_UNICO)) :> Head(rows).MOVIE_ID) @@ m)

MaxValue(m) == CHOOSE v \in {m[k] : k \in DOMAIN m} : \A k \in DOMAIN m : m[k] <= v

\* process: IDs of one chunk, row by row
RECURSIVE AssignRows(_, _, _, _)
AssignRows(chunk, m, nxt, done) ==
    IF chunk = <<>> THEN [m |-> m, nxt |-> nxt, rows |-> done]
    ELSE LET row == process_batch(Head(chunk))
             nu == Upper(Str(row.NOMBRE_UNICO))
             out(id) == [MOVIE_ID |-> id, MOVIE_NAME |-> row.MOVIE_NAME,
                         NOMBRE_UNICO |-> row.NOMBRE_UNICO]
         IN IF nu \in DOMAIN m
            THEN AssignRows(Tail(chunk), m, nxt, Append(done, out(m[nu])))
            ELSE AssignRows(Tail(chunk), (nu :> nxt) @@ m, nxt + 1,
                            Append(done, out(nxt)))

(* Inputs *)

sp == <<" ">>

StdNames ==
    { tDUNE, tDune \o sp \o <<"E","S","P">>, tLA \o sp \o tDUNE \o sp \o <<"3","D">>,
      sp \o <<"E","S","P">>, sp \o <<"S","U","B">>, <<"-">>, NaN }

InputTables == UNION { [1..n -> StdNames] : n \in 1..MaxRecords }

\* pre-existing catalogs, each with a one-to-one key-to-ID mapping
Templates ==
    { <<>>,
      << [NOMBRE_UNICO |-> tDUNE, MOVIE_ID |-> 5] >>,
      << [NOMBRE_UNICO |-> tREY, MOVIE_ID |-> 1],
         [NOMBRE_UNICO |-> tDUNE, MOVIE_ID |-> 2],
         [NOMBRE_UNICO |-> tDUNE, MOVIE_ID |-> 2] >>,
      << [NOMBRE_UNICO |-> NaN, MOVIE_ID |-> 3] >> }

InitStd ==
    /\ std_mode \in {"all_records", "process"}
    /\ std_pc = "start"
    /\ input_rows \in InputTables
    /\ template_rows \in Templates
    /\ read_pos = 0
    /\ unique_catalog = <<>>
    /\ movie_id_counter = 1
    /\ unique_to_id = <<>>
    /\ next_movie_id = 1
    /\ all_records = <<>>
    /\ output = <<>>
    /\ IdleNorm /\ IdleProp /\ IdleGoat /\ IdleCat /\ IdleVal /\ IdleFam /\ IdleAttr /\ IdleRate /\ IdleFile

\* process_all_records, lines 443-456
LoadTemplate ==
    /\ std_mode = "all_records" /\ std_pc = "start"
    /\ LET r == LoadTemplateRows(template_rows, <<>>, 1)
       IN /\ unique_catalog' = r.cat
          /\ movie_id_counter' = r.ctr
    /\ std_pc' = "pass1"
    /\ UNCHANGED <<std_mode, input_rows, template_rows, read_pos, unique_to_id,
                   next_movie_id, all_records, output>>
    /\ UNCHANGED othersStd

\* a cell that read_csv parses as a number
NumericName(movie_name) ==
    /\ movie_name # NaN /\ movie_name # <<>>
    /\ \A i \in 1..Len(movie_name) : movie_name[i] \in Digits

\* the dtype of the MOVIE_NAME column of a chunk is object, so that it has
\* the .str accessor, when some cell is neither missing nor a number
HasStrAccessor(chunk) ==
    \E i \in 1..Len(chunk) : chunk[i] # NaN /\ ~NumericName(chunk[i])

\* process_all_records, lines 462-498: one chunk of the first pass;
\* chunk['MOVIE_NAME'].str.upper() raises AttributeError on a numeric column
Pass1Chunk ==
    /\ std_mode = "all_records" /\ std_pc = "pass1"
    /\ read_pos < Len(input_rows)
    /\ LET chunk == NextChunk(input_rows, read_pos)
           r == ScanChunk(NotNa(chunk), unique_catalog, movie_id_counter)
           pos == read_pos + Len(chunk)
       IN IF HasStrAccessor(chunk)
          THEN /\ unique_catalog' = r.cat
               /\ movie_id_counter' = r.ctr
               /\ read_pos' = IF pos = Len(input_rows) THEN 0 ELSE pos
               /\ std_pc' = IF pos = Len(input_rows) THEN "pass2" ELSE "pass1"
          ELSE /\ std_pc' = "aborted"
               /\ UNCHANGED <<unique_catalog, movie_id_counter, read_pos>>
    /\ UNCHANGED <<std_mode, input_rows, template_rows, unique_to_id,
                   next_movie_id, all_records, output>>
    /\ UNCHANGED othersStd

\* a second pass that enters the keys it does not find into the catalog
RECURSIVE RegisterChunk(_, _, _)
RegisterChunk(chunk, cat, ctr) ==
    IF chunk = <<>> THEN [cat |-> cat, ctr |-> ctr]
    ELSE LET nu == Upper(process_batch(Head(chunk)).NOMBRE_UNICO)
         IN IF nu \notin DOMAIN cat
            THEN RegisterChunk(Tail(chunk), (nu :> [MOVIE_ID |-> ctr]) @@ cat, ctr + 1)
            ELSE RegisterChunk(Tail(chunk), cat, ctr)

Pass2ChunkRegistering ==
    /\ std_mode = "all_records" /\ std_pc = "pass2"
    /\ read_pos < Len(input_rows)
    /\ LET chunk == NextChunk(input_rows, read_pos)
           pos == read_pos + Len(chunk)
           r == RegisterChunk(NotNa(chunk), unique_catalog, movie_id_counter)
       IN /\ unique_catalog' = r.cat
          /\ movie_id_counter' = r.ctr
          /\ output' = output \o AssignChunk(NotNa(chunk), r.cat)
          /\ read_pos' = pos
          /\ std_pc' = IF pos = Len(input_rows) THEN "done" ELSE "pass2"
    /\ UNCHANGED <<std_mode, input_rows, template_rows, unique_to_id,
                   next_movie_id, all_records>>
    /\ UNCHANGED othersStd

\* process_all_records, lines 512-557: one chunk of the second pass, written
\* to the output file
Pass2Chunk ==
    /\ std_mode = "all_records" /\ std_pc = "pass2"
    /\ read_pos < Len(input_rows)
    /\ LET chunk == NextChunk(input_rows, read_pos)
           pos == read_pos + Len(chunk)
       IN /\ output' = output \o AssignChunk(NotNa(chunk), unique_catalog)
          /\ read_pos' = pos
          /\ std_pc' = IF pos = Len(input_rows) THEN "done" ELSE "pass2"
    /\ UNCHANGED <<std_mode, input_rows, template_rows, unique_catalog,
                   movie_id_counter, unique_to_id, next_movie_id, all_records>>
    /\ UNCHANGED othersStd

\* process, lines 598-612
LoadCatalog ==
    /\ std_mode = "process" /\ std_pc = "start"
    /\ LET m == LoadExisting(template_rows, <<>>)
       IN /\ unique_to_id' = m
          /\ next_movie_id' = IF DOMAIN m # {} THEN MaxValue(m) + 1 ELSE 1
    /\ std_pc' = "assign"
    /\ UNCHANGED <<std_mode, input_rows, template_rows, read_pos, unique_catalog,
                   movie_id_counter, all_records, output>>
    /\ UNCHANGED othersStd

\* process, lines 622-657: one chunk
ProcessChunk ==
    /\ std_mode = "process" /\ std_pc = "assign"
    /\ read_pos < Len(input_rows)
    /\ LET chunk == NextChunk(input_rows, read_pos)
           r == AssignRows(NotNa(chunk), unique_to_id, next_movie_id, <<>>)
           pos == read_pos + Len(chunk)
       IN /\ unique_to_id' = r.m
          /\ next_movie_id' = r.nxt
          /\ all_records' = all_records \o r.rows
          /\ read_pos' = pos
          /\ std_pc' = IF pos = Len(input_rows) THEN "save" ELSE "assign"
    /\ UNCHANGED <<std_mode, input_rows, template_rows, unique_catalog,
                   movie_id_counter, output>>
    /\ UNCHANGED othersStd

\* process, lines 665-690: final_catalog.to_csv(self.output_file)
SaveCatalog ==
    /\ std_mode = "process" /\ std_pc = "save"
    /\ output' = all_records
    /\ std_pc' = "done"
    /\ UNCHANGED <<std_mode, input_rows, template_rows, read_pos, unique_catalog,
                   movie_id_counter, unique_to_id, next_movie_id, all_records>>
    /\ UNCHANGED othersStd

NextStd == LoadTemplate \/ Pass1Chunk \/ Pass2Chunk
           \/ LoadCatalog \/ ProcessChunk \/ SaveCatalog

SpecStd == InitStd /\ [][NextStd]_vars

\* C1: in the table written by process_all_records and by process, every
\* non-empty NOMBRE_UNICO carries exactly one MOVIE_ID and no two distinct
\* NOMBRE_UNICO carry the same MOVIE_ID.
C1_KeyIdBijection ==
    std_pc = "done" =>
        \A i, j \in 1..Len(output) :
            (output[i].NOMBRE_UNICO # <<>> /\ output[j].NOMBRE_UNICO # <<>>)
                => (output[i].NOMBRE_UNICO = output[j].NOMBRE_UNICO
                        <=> output[i].MOVIE_ID = output[j].MOVIE_ID)

\* the same statement for MovieStandardizer.process alone
C1_ProcessAlone == std_mode = "process" => C1_KeyIdBijection

-----------------------------------------------------------------------------
(***************************************************************************)
(* Propagation and enrichment over a table.                                *)
(* A row is a record of small integers: Empty stands for a missing cell    *)
(* (NaN or ''), other numbers for distinct strings, ordered as the strings *)
(* sort.  TITULO_WORD is the first word of the row's TITULO_LIMPIO.        *)
(***************************************************************************)
Empty == 0

WebValue == 3

MaxRows == 3

\* movie_enricher.py:83-87
fields_to_propagate ==
    {"CATEGORIA", "DESCRIPCION", "FAMILIA", "ACTOR_PRINCIPAL", "DIRECTOR",
     "DURACION", "CATEGORIA_CINEPOLIS", "DESCRIPCION2"}

\* movie_enricher.py:338
enriched_fields ==
    {"CATEGORIA", "DESCRIPCION", "ACTOR_PRINCIPAL", "DIRECTOR", "FAMILIA"}

\* GOAT_enrichment.py:380-381
replication_fields ==
    {"CATEGORIA", "DESCRIPCION", "ACTOR_PRINCIPAL", "DIRECTOR", "DURACION",
     "FAMILIA", "DESCRIPCION2", "CATEGORIA_CINEPOLIS"}

\* movies_master_processor.py:149-150, final_processor.py:246-249
coherent_fields ==
    {"CATEGORIA", "CATEGORIA_CINEPOLIS", "DIRECTOR", "ACTOR_PRINCIPAL",
     "DESCRIPCION", "DURACION", "FAMILIA"}

\* df['NOMBRE_UNICO'] == nombre_unico
GroupIdx(t, k) == { i \in 1..Len(t) : t[i].NOMBRE_UNICO = k }

\* group[field].dropna(), then [non_empty != '']
NonEmptyIdx(t, k, f) == { i \in GroupIdx(t, k) : t[i][f] # Empty }

Freq(t, idx, f, v) == Cardinality({ i \in idx : t[i][f] = v })

\* the values that occur most often among the rows idx
TopValues(t, idx, f) ==
    { v \in { t[i][f] : i \in idx } :
        \A w \in { t[i][f] : i \in idx } : Freq(t, idx, f, w) <= Freq(t, idx, f, v) }

Smallest(S) == CHOOSE v \in S : \A w \in S : v <= w

Largest(S) == CHOOSE v \in S : \A w \in S : w <= v

FirstIdx(t, idx, f, v) == Smallest({ i \in idx : t[i][f] = v })

\* Series.mode()[0]: the modal values come sorted, so the smallest is taken
ModeFirst(t, idx, f) == Smallest(TopValues(t, idx, f))

\* Series.value_counts().index[0]: the order among equally frequent values
\* depends on the sort the installed pandas uses
TieBreaks == {"first_seen", "smallest", "largest"}

ValueCountsFirst(t, idx, f, tb) ==
    LET top == TopValues(t, idx, f)
    IN  CASE tb = "smallest" -> Smallest(top)
          [] tb = "largest" -> Largest(top)
          [] OTHER -> CHOOSE v \in top :
                        \A w \in top : FirstIdx(t, idx, f, v) <= FirstIdx(t, idx, f, w)

\* the variant that leaves groups of two records alone
propagate_groups_over_two(t) ==
    [i \in 1..Len(t) |-> [f \in DOMAIN t[i] |->
        LET k == t[i].NOMBRE_UNICO
        IN  IF /\ f \in fields_to_propagate
               /\ k # Empty
               /\ Cardinality(GroupIdx(t, k)) > 2
               /\ t[i][f] = Empty
               /\ NonEmptyIdx(t, k, f) # {}
            THEN ModeFirst(t, NonEmptyIdx(t, k, f), f)
            ELSE t[i][f]]]

\* MovieEnricher.propagate_data_within_groups: groupby drops missing keys,
\* only groups of more than one record are touched, and in each of them the
\* empty cells of a field receive the mode of its non-empty cells.
propagate_data_within_groups(t) ==
    [i \in 1..Len(t) |-> [f \in DOMAIN t[i] |->
        LET k == t[i].NOMBRE_UNICO
        IN  IF /\ f \in fields_to_propagate
               /\ k # Empty
               /\ Cardinality(GroupIdx(t, k)) > 1
               /\ t[i][f] = Empty
               /\ NonEmptyIdx(t, k, f) # {}
            THEN ModeFirst(t, NonEmptyIdx(t, k, f), f)
            ELSE t[i][f]]]

\* MovieEnricher.ensure_final_consistency: in every group with a key, the
\* MOVIE_ID becomes the mode of the group's IDs when they differ, and the
\* empty cells of the enriched fields receive the mode of the non-empty ones
ensure_final_consistency(t) ==
    [i \in 1..Len(t) |-> [f \in DOMAIN t[i] |->
        LET k == t[i].NOMBRE_UNICO
        IN  IF f = "MOVIE_ID" /\ k # Empty
            THEN ModeFirst(t, GroupIdx(t, k), f)
            ELSE
            IF /\ f \in enriched_fields
               /\ k # Empty
               /\ t[i][f] = Empty
               /\ NonEmptyIdx(t, k, f) # {}
            THEN ModeFirst(t, NonEmptyIdx(t, k, f), f)
            ELSE t[i][f]]]

\* the keys of t in order of first appearance (drop_duplicates, unique())
RECURSIVE KeysInOrder(_, _)
KeysInOrder(t, i) ==
    IF i > Len(t) THEN <<>>
    ELSE LET rest == KeysInOrder(t, i + 1)
             k == t[i].NOMBRE_UNICO
         IN  <<k>> \o SelectSeq(rest, LAMBDA x : x # k)

\* the sorted keys of a set (groupby sorts its keys)
RECURSIVE SortedKeys(_)
SortedKeys(S) ==
    IF S = {} THEN <<>>
    ELSE <<Smallest(S)>> \o SortedKeys(S \ {Smallest(S)})

\* movie_enricher.py:254
enrichment_fields == {"CATEGORIA", "DESCRIPCION", "ACTOR_PRINCIPAL", "DIRECTOR"}

\* movie_enricher.py:270: movies_to_enrich[:50]
ENRICH_LIMIT == 50

\* MovieEnricher.enrich_missing_data, lines 256-265: the first record of each
\* key decides whether the key is looked up
movies_to_enrich(t) ==
    LET first(k) == Smallest(GroupIdx(t, k))
        all == SelectSeq(KeysInOrder(t, 1),
                   LAMBDA k : \E f \in enrichment_fields : t[first(k)][f] = Empty)
    IN  SubSeq(all, 1, Min(ENRICH_LIMIT, Len(all)))

\* what a page, or the merged sources, can give for one movie
NoInfo == [categoria |-> Empty, descripcion |-> Empty, actor_principal |-> Empty,
           director |-> Empty, duracion |-> Empty]

WebInfos ==
    { NoInfo,
      [NoInfo EXCEPT !.categoria = WebValue],
      [categoria |-> WebValue, descripcion |-> WebValue,
       actor_principal |-> WebValue, director |-> WebValue, duracion |-> WebValue] }

\* an enrichment that writes every field the page has
enrich_one_overwriting(t, k, info) ==
    [i \in 1..Len(t) |-> [f \in DOMAIN t[i] |->
        IF t[i].NOMBRE_UNICO # k THEN t[i][f]
        ELSE CASE f \in {"CATEGORIA", "CATEGORIA_CINEPOLIS"} /\ info.categoria # Empty
                    -> info.categoria
               [] f \in {"DESCRIPCION", "DESCRIPCION2"} /\ info.descripcion # Empty
                    -> info.descripcion
               [] f = "ACTOR_PRINCIPAL" /\ info.actor_principal # Empty
                    -> info.actor_principal
               [] f = "DIRECTOR" /\ info.director # Empty
                    -> info.director
               [] OTHER -> t[i][f]]]

\* MovieEnricher.enrich_missing_data, lines 283-302: one movie whose page was
\* found; a field is written on every record of the group when the page has
\* it and some record of the group lacks it
enrich_one(t, k, info) ==
    LET lacks(f) == \E i \in GroupIdx(t, k) : t[i][f] = Empty
    IN  [i \in 1..Len(t) |-> [f \in DOMAIN t[i] |->
            IF t[i].NOMBRE_UNICO # k THEN t[i][f]
            ELSE CASE f \in {"CATEGORIA", "CATEGORIA_CINEPOLIS"}
                        /\ info.categoria # Empty /\ lacks("CATEGORIA")
                        -> info.categoria
                   [] f \in {"DESCRIPCION", "DESCRIPCION2"}
                        /\ info.descripcion # Empty /\ lacks("DESCRIPCION")
                        -> info.descripcion
                   [] f = "ACTOR_PRINCIPAL"
                        /\ info.actor_principal # Empty /\ lacks("ACTOR_PRINCIPAL")
                        -> info.actor_principal
                   [] f = "DIRECTOR"
                        /\ info.director # Empty /\ lacks("DIRECTOR")
                        -> info.director
                   [] OTHER -> t[i][f]]]

\* the position of x in a sequence without repetitions
IndexOf(seq, x) == CHOOSE n \in 1..Len(seq) : seq[n] = x

\* GOATMovieEnricher.reassign_movie_ids: the names are numbered from 1 in
\* order of first appearance, the records without a name get the numbers
\* after them, one each
reassign_movie_ids(t) ==
    LET unique_names == SelectSeq(KeysInOrder(t, 1), LAMBDA k : k # Empty)
        max_id == Len(unique_names) + 1
        unnamed_before(i) == Cardinality({ j \in 1..(i - 1) : t[j].NOMBRE_UNICO = Empty })
    IN  [i \in 1..Len(t) |->
            [t[i] EXCEPT !.MOVIE_ID =
                IF t[i].NOMBRE_UNICO # Empty
                THEN IndexOf(unique_names, t[i].NOMBRE_UNICO)
                ELSE max_id + unnamed_before(i)]]

\* the distinct keys of a table
TableKeys(t) == { t[i].NOMBRE_UNICO : i \in 1..Len(t) }

\* a renumbering in order of first appearance
remap_by_first_appearance(t) ==
    [i \in 1..Len(t) |->
        [t[i] EXCEPT !.MOVIE_ID = IndexOf(KeysInOrder(t, 1), t[i].NOMBRE_UNICO)]]

\* MoviesMasterProcessor.remap_movie_ids_perfect, lines 132-136:
\* unique_names = sorted(df['NOMBRE_UNICO'].unique()), name_to_id = idx + 1.
\* clean_symbols_from_key_fields has turned a missing key into '', which is
\* a name like the others and sorts first
remap_movie_ids_perfect(t) ==
    LET unique_names == SortedKeys(TableKeys(t))
    IN  [i \in 1..Len(t) |->
            [t[i] EXCEPT !.MOVIE_ID = IndexOf(unique_names, t[i].NOMBRE_UNICO)]]

\* EnhancedMoviesProcessor.remap_movie_ids_optimized, lines 288-294: the same
\* statements, after advanced_cleaning
remap_movie_ids_optimized(t) ==
    LET unique_names == SortedKeys(TableKeys(t))
        name_to_id == [k \in TableKeys(t) |-> IndexOf(unique_names, k)]
    IN  [i \in 1..Len(t) |-> [t[i] EXCEPT !.MOVIE_ID = name_to_id[t[i].NOMBRE_UNICO]]]

\* GOATMovieEnricher.enrich_movies, lines 334-340: groupby drops missing
\* keys and sorts the others; first() takes the first non-null cell of each
\* column, so a key needs enrichment when one of the four columns is empty
\* in all its records
needs_enrich(t) ==
    SortedKeys({ k \in { t[i].NOMBRE_UNICO : i \in 1..Len(t) } :
                   /\ k # Empty
                   /\ \E f \in enrichment_fields : NonEmptyIdx(t, k, f) = {} })

\* the column a key of the search result is written to (field.upper())
InfoColumn ==
    [categoria |-> "CATEGORIA", descripcion |-> "DESCRIPCION",
     actor_principal |-> "ACTOR_PRINCIPAL", director |-> "DIRECTOR",
     duracion |-> "DURACION"]

\* GOATMovieEnricher.enrich_movies, lines 363-371: the results fill the empty
\* cells of their columns in the records of their key
apply_enriched(t, data) ==
    [i \in 1..Len(t) |-> [f \in DOMAIN t[i] |->
        LET k == t[i].NOMBRE_UNICO
        IN  IF /\ k \in DOMAIN data
               /\ t[i][f] = Empty
               /\ \E g \in DOMAIN InfoColumn : InfoColumn[g] = f /\ data[k][g] # Empty
            THEN LET g == CHOOSE g \in DOMAIN InfoColumn : InfoColumn[g] = f
                 IN  data[k][g]
            ELSE t[i][f]]]

\* a replication that acts only where several records carry a value
vertical_replication_skip_single(t, tb) ==
    [i \in 1..Len(t) |-> [f \in DOMAIN t[i] |->
        LET k == t[i].NOMBRE_UNICO
            non_empty == NonEmptyIdx(t, k, f)
        IN  IF f \in replication_fields /\ k # Empty /\ Cardinality(non_empty) > 1
            THEN ValueCountsFirst(t, non_empty, f, tb)
            ELSE t[i][f]]]

\* GOATMovieEnricher.vertical_replication: every record of a key receives the
\* most frequent non-empty value of the field
vertical_replication(t, tb) ==
    [i \in 1..Len(t) |-> [f \in DOMAIN t[i] |->
        LET k == t[i].NOMBRE_UNICO
            non_empty == NonEmptyIdx(t, k, f)
        IN  IF f \in replication_fields /\ k # Empty /\ non_empty # {}
            THEN IF Cardinality(non_empty) > 1
                 THEN ValueCountsFirst(t, non_empty, f, tb)
                 ELSE t[Smallest(non_empty)][f]
            ELSE t[i][f]]]

\* GOATMovieEnricher.horizontal_replication: an empty mirror receives its
\* source, an empty FAMILIA the first word of TITULO_LIMPIO
horizontal_replication(t) ==
    [i \in 1..Len(t) |-> [f \in DOMAIN t[i] |->
        CASE f = "CATEGORIA_CINEPOLIS" /\ t[i][f] = Empty -> t[i].CATEGORIA
          [] f = "DESCRIPCION2" /\ t[i][f] = Empty -> t[i].DESCRIPCION
          [] f = "FAMILIA" /\ t[i][f] = Empty -> t[i].TITULO_WORD
          [] OTHER -> t[i][f]]]

\* the cells that count as values for dropna() in the final processors: the
\* cleaning steps before them turned the missing cells of FAMILIA into '',
\* which dropna() keeps
ValuedIdx(t, k, f) ==
    IF f = "FAMILIA" THEN GroupIdx(t, k) ELSE NonEmptyIdx(t, k, f)

\* MoviesMasterProcessor.ensure_vertical_coherence: every record of a key,
\* the empty key included, receives the mode of the field; then the category
\* mirror is overwritten
ensure_vertical_coherence(t) ==
    LET vertical == [i \in 1..Len(t) |-> [f \in DOMAIN t[i] |->
            LET k == t[i].NOMBRE_UNICO
            IN  IF f \in coherent_fields /\ ValuedIdx(t, k, f) # {}
                THEN ModeFirst(t, ValuedIdx(t, k, f), f)
                ELSE t[i][f]]]
    IN  [i \in 1..Len(t) |->
            [vertical[i] EXCEPT !.CATEGORIA_CINEPOLIS = vertical[i].CATEGORIA]]

\* EnhancedMoviesProcessor.ensure_vertical_coherence_complete: the same for
\* groups of more than one record, with value_counts
ensure_vertical_coherence_complete(t, tb) ==
    LET vertical == [i \in 1..Len(t) |-> [f \in DOMAIN t[i] |->
            LET k == t[i].NOMBRE_UNICO
            IN  IF /\ f \in coherent_fields
                   /\ Cardinality(GroupIdx(t, k)) > 1
                   /\ ValuedIdx(t, k, f) # {}
                THEN ValueCountsFirst(t, ValuedIdx(t, k, f), f, tb)
                ELSE t[i][f]]]
    IN  [i \in 1..Len(t) |->
            [vertical[i] EXCEPT !.CATEGORIA_CINEPOLIS = vertical[i].CATEGORIA]]

-----------------------------------------------------------------------------
(***************************************************************************)
(* GOATMovieEnricher.comprehensive_search.  A name is the sequence of its  *)
(* words; the values an adapter returns are numbered by the adapter.       *)
(***************************************************************************)
MaxCalls == 3

\* search_funcs, in the order of the list: Cinepolis, Wikipedia, IMDb
Sources == 1..3

SourceValue(s) == WebValue + (s - 1)

\* hashlib.md5(movie_name.encode()).hexdigest(): a digest of the name
md5(name) == <<"md5">> \o name

\* the format words clean_movie_name removes (re.I)
FormatWords == {"ESP", "SUB", "2D", "3D", "4DX", "IMAX", "SCREENX", "DIG",
                "esp", "sub", "2d", "3d", "4dx", "imax", "screenx", "dig"}

\* GOATMovieEnricher.clean_movie_name on a name made of words
clean_movie_name(name) == SelectSeq(name, LAMBDA w : w \notin FormatWords)

\* return {}
EmptyDict == [empty_dict |-> TRUE]

\* what one adapter can return: it swallows its own exceptions and returns
\* the fields it had extracted
AdapterInfos(s) ==
    { NoInfo,
      [NoInfo EXCEPT !.categoria = SourceValue(s)],
      [key \in DOMAIN NoInfo |-> SourceValue(s)] }

\* search_imdb_via_google, lines 245-265: the fields already written when the
\* join of the actor names raises inside the inner try block
PartialImdbInfo ==
    [NoInfo EXCEPT !.categoria = SourceValue(3), !.descripcion = SourceValue(3),
                   !.director = SourceValue(3)]

\* what a failing adapter returns. A timeout, a transport error or a non-200
\* response happens before any field of info is written (lines 113-115,
\* 163-164 and 171-173, 219-220 and 235-236) and the except clause returns
\* the initial info; the parse of the IMDb JSON-LD block can raise after
\* three fields are written
FailedInfos(s) == IF s = 3 THEN { NoInfo, PartialImdbInfo } ELSE { NoInfo }

\* the outcome of one adapter call: the info it returns, and whether a
\* request failed or an exception was swallowed on the way
AdapterOutcomes(s) ==
    { [info |-> i, failed |-> FALSE] : i \in AdapterInfos(s) }
    \cup { [info |-> i, failed |-> TRUE] : i \in FailedInfos(s) }

AdapterResponses == { r \in [Sources -> UNION { AdapterOutcomes(s) : s \in Sources }] :
                        \A s \in Sources : r[s] \in AdapterOutcomes(s) }

\* last-write-wins merge
MergeInfoLastWins(combined_info, info) ==
    [key \in DOMAIN combined_info |->
        IF info[key] # Empty THEN info[key] ELSE combined_info[key]]

\* lines 295-297: if value and not combined_info[key]
MergeInfo(combined_info, info) ==
    [key \in DOMAIN combined_info |->
        IF info[key] # Empty /\ combined_info[key] = Empty
        THEN info[key] ELSE combined_info[key]]

\* a loop that gives up at the first adapter that failed
RECURSIVE SearchLoopStopOnFailure(_, _, _, _)
SearchLoopStopOnFailure(combined_info, s, resp, used) ==
    IF s \notin Sources THEN [info |-> combined_info, used |-> used]
    ELSE LET merged == MergeInfo(combined_info, resp[s].info)
         IN  IF resp[s].failed \/ \A key \in DOMAIN merged : merged[key] # Empty
             THEN [info |-> merged, used |-> used \cup {s}]
             ELSE SearchLoopStopOnFailure(merged, s + 1, resp, used \cup {s})

\* lines 292-303: the loop over search_funcs from source s on, with the break
\* once every field is filled; returns the merged result and the sources used
RECURSIVE SearchLoop(_, _, _, _)
SearchLoop(combined_info, s, resp, used) ==
    IF s \notin Sources THEN [info |-> combined_info, used |-> used]
    ELSE LET merged == MergeInfo(combined_info, resp[s].info)
         IN  IF \A key \in DOMAIN merged : merged[key] # Empty
             THEN [info |-> merged, used |-> used \cup {s}]
             ELSE SearchLoop(merged, s + 1, resp, used \cup {s})

\* a lookup that takes an entirely empty cached result for a miss
CacheHitNonEmpty(c, name) == md5(name) \in DOMAIN c /\ c[md5(name)] # NoInfo

\* line 276: if cache_key in self.cache
CacheHit(c, name) == md5(name) \in DOMAIN c

\* comprehensive_search as a function of the cache, the name and what the
\* adapters would answer: the result, the new cache, the adapters called
comprehensive_search(c, name, resp) ==
    IF CacheHit(c, name)
    THEN [kind |-> "hit", name |-> name, result |-> c[md5(name)], cache |-> c,
          used |-> {}, resp |-> <<>>]
    ELSE IF clean_movie_name(name) = <<>>
    THEN [kind |-> "unsearchable", name |-> name, result |-> EmptyDict, cache |-> c,
          used |-> {}, resp |-> <<>>]
    ELSE LET r == SearchLoop(NoInfo, 1, resp, {})
         IN  [kind |-> "searched", name |-> name, result |-> r.info,
              cache |-> (md5(name) :> r.info) @@ c,
              used |-> r.used,
              resp |-> [s \in r.used |-> resp[s]]]

\* the invocation counters after a call
CountInvocations(inv, name, used) ==
    [p \in DOMAIN inv \cup { <<name, s>> : s \in used } |->
        (IF p \in DOMAIN inv THEN inv[p] ELSE 0)
        + (IF p[1] = name /\ p[2] \in used THEN 1 ELSE 0)]

-----------------------------------------------------------------------------
(***************************************************************************)
(* The pipelines over a table: MovieEnricher.process,                      *)
(* GOATMovieEnricher.process, and the vertical-coherence steps of the two  *)
(* final processors.                                                       *)
(***************************************************************************)
Row(k, id, w, cat, cc, desc, d2, act, dir, dur, fam) ==
    [NOMBRE_UNICO |-> k, MOVIE_ID |-> id, TITULO_WORD |-> w, CATEGORIA |-> cat,
     CATEGORIA_CINEPOLIS |-> cc, DESCRIPCION |-> desc, DESCRIPCION2 |-> d2,
     ACTOR_PRINCIPAL |-> act, DIRECTOR |-> dir, DURACION |-> dur, FAMILIA |-> fam]

\* the canonical names behind the key numbers
KeyName(k) == IF k = 1 THEN <<"DUNE">> ELSE <<"ROMA">>

\* the first words of the titles of a key
WordA == 6

WordB == 7

\* the records a table is made of: empty, complete, conflicting with the
\* complete one, mirror different from its primary, mirror without primary
\* the MOVIE_ID the input file gives to the records of a key
InputId(k) == 10 + k

RowsOfKey(k) ==
    { Row(k, InputId(k), WordA, 0, 0, 0, 0, 0, 0, 0, 0),
      Row(k, InputId(k), WordA, 1, 1, 1, 1, 1, 1, 1, 1) }

\* the third record of key 1 carries the MOVIE_ID of key 2
InputRows ==
    RowsOfKey(1) \cup RowsOfKey(2) \cup RowsOfKey(Empty)
    \cup { Row(1, InputId(2), WordB, 2, 2, 0, 0, 0, 2, 2, 1),
           Row(1, InputId(1), WordB, 1, 2, 1, 0, 1, 0, 0, 0),
           Row(1, InputId(1), WordA, 0, 2, 0, 1, 2, 1, 1, 2) }

PropTables == UNION { [1..n -> InputRows] : n \in 1..MaxRows }

\* a pipeline of P is about to run on some table
InitTable(P) ==
    /\ pipeline \in P
    /\ prop_pc = "start"
    /\ df \in PropTables
    /\ df_before = df
    /\ last_step = "none"
    /\ enrich_queue = <<>>
    /\ enriched_data = <<>>
    /\ IdleGoat
    /\ IdleNorm /\ IdleStd /\ IdleCat /\ IdleVal /\ IdleFam /\ IdleAttr /\ IdleRate /\ IdleFile

\* MovieEnricher.process, step 1
PropagateDataWithinGroups ==
    /\ pipeline = "MovieEnricher" /\ prop_pc = "start"
    /\ df' = propagate_data_within_groups(df)
    /\ df_before' = df
    /\ last_step' = "propagate_data_within_groups"
    /\ prop_pc' = "enrich"
    /\ UNCHANGED <<pipeline, enrich_queue, enriched_data>>
    /\ UNCHANGED goatVars
    /\ UNCHANGED othersProp

\* MovieEnricher.enrich_missing_data, lines 253-268: the movies to look up
EnrichMissingBegin ==
    /\ pipeline = "MovieEnricher" /\ prop_pc = "enrich"
    /\ enrich_queue' = movies_to_enrich(df)
    /\ df_before' = df
    /\ last_step' = "enrich_missing_data"
    /\ prop_pc' = "enrich_loop"
    /\ UNCHANGED <<pipeline, df, enriched_data>>
    /\ UNCHANGED goatVars
    /\ UNCHANGED othersProp

\* MovieEnricher.enrich_missing_data, lines 270-304: one iteration; the page
\* of a movie may not be found, and a missing name never has one
EnrichMissingOne ==
    /\ pipeline = "MovieEnricher" /\ prop_pc = "enrich_loop"
    /\ enrich_queue # <<>>
    /\ \E found \in BOOLEAN, info \in WebInfos :
        /\ Head(enrich_queue) = Empty => ~found
        /\ df' = IF found THEN enrich_one(df, Head(enrich_queue), info) ELSE df
    /\ enrich_queue' = Tail(enrich_queue)
    /\ UNCHANGED <<pipeline, prop_pc, df_before, last_step, enriched_data>>
    /\ UNCHANGED goatVars
    /\ UNCHANGED othersProp

\* MovieEnricher.process, step 3
EnsureFinalConsistency ==
    /\ pipeline = "MovieEnricher" /\ prop_pc = "enrich_loop"
    /\ enrich_queue = <<>>
    /\ df' = ensure_final_consistency(df)
    /\ df_before' = df
    /\ last_step' = "ensure_final_consistency"
    /\ prop_pc' = "done"
    /\ UNCHANGED <<pipeline, enrich_queue, enriched_data>>
    /\ UNCHANGED goatVars
    /\ UNCHANGED othersProp

\* GOATMovieEnricher.process: reassign_movie_ids
ReassignMovieIds ==
    /\ pipeline = "GOAT" /\ prop_pc = "start"
    /\ df' = reassign_movie_ids(df)
    /\ df_before' = df
    /\ last_step' = "reassign_movie_ids"
    /\ prop_pc' = "enrich"
    /\ UNCHANGED <<pipeline, enrich_queue, enriched_data>>
    /\ UNCHANGED goatVars
    /\ UNCHANGED othersProp

\* GOATMovieEnricher.enrich_movies, lines 333-342: the names to search
GoatEnrichBegin ==
    /\ pipeline = "GOAT" /\ prop_pc = "enrich"
    /\ enrich_queue' = needs_enrich(df)
    /\ enriched_data' = <<>>
    /\ df_before' = df
    /\ last_step' = "enrich_movies"
    /\ prop_pc' = "enrich_loop"
    /\ UNCHANGED <<pipeline, df>>
    /\ UNCHANGED goatVars
    /\ UNCHANGED othersProp

\* the answers of the three adapters during a pipeline run: nothing found,
\* one field from Cinepolis and the rest from Wikipedia, all from Cinepolis
PipelineResponses ==
    { r \in AdapterResponses :
        /\ \A s \in Sources : ~r[s].failed
        /\ \/ \A s \in Sources : r[s].info = NoInfo
           \/ /\ r[1].info = [NoInfo EXCEPT !.categoria = SourceValue(1)]
              /\ r[2].info = [key \in DOMAIN NoInfo |-> SourceValue(2)]
              /\ r[3].info = NoInfo
           \/ /\ r[1].info = [key \in DOMAIN NoInfo |-> SourceValue(1)]
              /\ r[2].info = NoInfo /\ r[3].info = NoInfo }

\* GOATMovieEnricher.enrich_movies, lines 346-360: one iteration
GoatSearchOne ==
    /\ pipeline = "GOAT" /\ prop_pc = "enrich_loop"
    /\ enrich_queue # <<>>
    /\ \E resp \in PipelineResponses :
        LET k == Head(enrich_queue)
            r == comprehensive_search(cache, KeyName(k), resp)
        IN  /\ cache' = r.cache
            /\ invoked' = CountInvocations(invoked, r.name, r.used)
            /\ last_search' = [kind |-> r.kind, name |-> r.name, result |-> r.result,
                               used |-> r.used, resp |-> r.resp]
            /\ enriched_data' = IF r.result # EmptyDict
                                THEN (k :> r.result) @@ enriched_data
                                ELSE enriched_data
    /\ ncalls' = ncalls + 1
    /\ enrich_queue' = Tail(enrich_queue)
    /\ UNCHANGED <<pipeline, prop_pc, df, df_before, last_step>>
    /\ UNCHANGED othersProp

\* GOATMovieEnricher.enrich_movies, lines 362-374: apply the results
GoatEnrichApply ==
    /\ pipeline = "GOAT" /\ prop_pc = "enrich_loop"
    /\ enrich_queue = <<>>
    /\ df' = apply_enriched(df, enriched_data)
    /\ prop_pc' = "vertical"
    /\ UNCHANGED <<pipeline, df_before, last_step, enrich_queue, enriched_data>>
    /\ UNCHANGED goatVars
    /\ UNCHANGED othersProp

\* GOATMovieEnricher.process: vertical_replication
VerticalReplication ==
    /\ pipeline = "GOAT" /\ prop_pc = "vertical"
    /\ \E tb \in TieBreaks : df' = vertical_replication(df, tb)
    /\ df_before' = df
    /\ last_step' = "vertical_replication"
    /\ prop_pc' = "horizontal"
    /\ UNCHANGED <<pipeline, enrich_queue, enriched_data>>
    /\ UNCHANGED goatVars
    /\ UNCHANGED othersProp

\* GOATMovieEnricher.process: horizontal_replication
HorizontalReplication ==
    /\ pipeline = "GOAT" /\ prop_pc = "horizontal"
    /\ df' = horizontal_replication(df)
    /\ df_before' = df
    /\ last_step' = "horizontal_replication"
    /\ prop_pc' = "done"
    /\ UNCHANGED <<pipeline, enrich_queue, enriched_data>>
    /\ UNCHANGED goatVars
    /\ UNCHANGED othersProp

\* MoviesMasterProcessor.process_complete_dataset: remap_movie_ids_perfect
RemapMovieIdsPerfect ==
    /\ pipeline = "Master" /\ prop_pc = "start"
    /\ df' = remap_movie_ids_perfect(df)
    /\ df_before' = df
    /\ last_step' = "remap_movie_ids_perfect"
    /\ prop_pc' = "coherence"
    /\ UNCHANGED <<pipeline, enrich_queue, enriched_data>>
    /\ UNCHANGED goatVars
    /\ UNCHANGED othersProp

\* MoviesMasterProcessor.process_complete_dataset: ensure_vertical_coherence
EnsureVerticalCoherence ==
    /\ pipeline = "Master" /\ prop_pc = "coherence"
    /\ df' = ensure_vertical_coherence(df)
    /\ df_before' = df
    /\ last_step' = "ensure_vertical_coherence"
    /\ prop_pc' = "done"
    /\ UNCHANGED <<pipeline, enrich_queue, enriched_data>>
    /\ UNCHANGED goatVars
    /\ UNCHANGED othersProp

\* EnhancedMoviesProcessor.process_dataset_complete:
\* ensure_vertical_coherence_complete
EnsureVerticalCoherenceComplete ==
    /\ pipeline = "Enhanced" /\ prop_pc = "start"
    /\ \E tb \in TieBreaks : df' = ensure_vertical_coherence_complete(df, tb)
    /\ df_before' = df
    /\ last_step' = "ensure_vertical_coherence_complete"
    /\ prop_pc' = "remap"
    /\ UNCHANGED <<pipeline, enrich_queue, enriched_data>>
    /\ UNCHANGED goatVars
    /\ UNCHANGED othersProp

\* EnhancedMoviesProcessor.process_dataset_complete: remap_movie_ids_optimized
RemapMovieIdsOptimized ==
    /\ pipeline = "Enhanced" /\ prop_pc = "remap"
    /\ df' = remap_movie_ids_optimized(df)
    /\ df_before' = df
    /\ last_step' = "remap_movie_ids_optimized"
    /\ prop_pc' = "done"
    /\ UNCHANGED <<pipeline, enrich_queue, enriched_data>>
    /\ UNCHANGED goatVars
    /\ UNCHANGED othersProp

\* MovieEnricher.process
InitEnricher == InitTable({"MovieEnricher"})

NextEnricher ==
    \/ PropagateDataWithinGroups \/ EnrichMissingBegin \/ EnrichMissingOne
    \/ EnsureFinalConsistency

SpecEnricher == InitEnricher /\ [][NextEnricher]_vars

\* GOATMovieEnricher.process
InitGoat == InitTable({"GOAT"})

NextGoat ==
    \/ ReassignMovieIds
    \/ GoatEnrichBegin \/ GoatSearchOne \/ GoatEnrichApply
    \/ VerticalReplication \/ HorizontalReplication

SpecGoat == InitGoat /\ [][NextGoat]_vars

\* the re-indexing and vertical-coherence steps of the final processors
InitFinal == InitTable({"Master", "Enhanced"})

NextFinal ==
    \/ RemapMovieIdsPerfect \/ EnsureVerticalCoherence
    \/ EnsureVerticalCoherenceComplete \/ RemapMovieIdsOptimized

SpecFinal == InitFinal /\ [][NextFinal]_vars

-----------------------------------------------------------------------------
\* the coherent set of C5
CoherentSet ==
    {"CATEGORIA", "DESCRIPCION", "ACTOR_PRINCIPAL", "DIRECTOR", "DURACION", "FAMILIA"}

\* the metadata columns of a record
MetadataFields == fields_to_propagate

\* C5 (as stated): after propagate_data_within_groups, any two records with
\* the same NOMBRE_UNICO agree on every field of the coherent set, whatever
\* the input values were.
C5_GroupsEqualAfterPropagation ==
    last_step = "propagate_data_within_groups" =>
        \A i, j \in 1..Len(df) :
            (df[i].NOMBRE_UNICO # Empty /\ df[i].NOMBRE_UNICO = df[j].NOMBRE_UNICO)
                => \A f \in CoherentSet : df[i][f] = df[j][f]

\* C5 (amended): after propagate_data_within_groups, two records with the
\* same non-missing NOMBRE_UNICO agree on a coherent-set field whenever the
\* non-empty values the group had for that field on input were all the same;
\* a value that was non-empty on input is left as it was.
C5_AgreeingGroupsEqualAfterPropagation ==
    last_step = "propagate_data_within_groups" =>
        /\ \A i, j \in 1..Len(df) : \A f \in CoherentSet :
              LET k == df[i].NOMBRE_UNICO
              IN  ( /\ k # Empty /\ k = df[j].NOMBRE_UNICO
                    /\ Cardinality({ df_before[r][f] :
                                        r \in NonEmptyIdx(df_before, k, f) }) <= 1 )
                      => df[i][f] = df[j][f]
        /\ \A i \in 1..Len(df) : \A f \in CoherentSet :
              df_before[i][f] # Empty => df[i][f] = df_before[i][f]

\* a group had one value and an empty cell for DIRECTOR, and the cell was filled
C5_Witness ==
    /\ last_step = "propagate_data_within_groups"
    /\ \E i, j \in 1..Len(df) :
        /\ df[i].NOMBRE_UNICO # Empty /\ df[i].NOMBRE_UNICO = df[j].NOMBRE_UNICO
        /\ df_before[i].DIRECTOR = Empty /\ df_before[j].DIRECTOR # Empty
        /\ df[i].DIRECTOR = df[j].DIRECTOR

\* C6: each of the five propagation and enrichment steps changes a metadata
\* cell only from empty to non-empty: a cell that was non-empty when the
\* step began holds the same value when it ends.
C6_StepsOnlyFillEmptyCells ==
    last_step \in {"propagate_data_within_groups", "vertical_replication",
                   "enrich_movies", "ensure_vertical_coherence",
                   "ensure_vertical_coherence_complete"} =>
        \A i \in 1..Len(df) : \A f \in MetadataFields :
            df_before[i][f] # Empty => df[i][f] = df_before[i][f]

\* C7: when MovieEnricher.process or GOATMovieEnricher.process has finished,
\* every row has CATEGORIA = CATEGORIA_CINEPOLIS and DESCRIPCION = DESCRIPCION2.
C7_MirrorsEqualAfterProcess ==
    (pipeline \in {"MovieEnricher", "GOAT"} /\ prop_pc = "done") =>
        \A i \in 1..Len(df) :
            /\ df[i].CATEGORIA = df[i].CATEGORIA_CINEPOLIS
            /\ df[i].DESCRIPCION = df[i].DESCRIPCION2

-----------------------------------------------------------------------------
(***************************************************************************)
(* Calls of comprehensive_search within one run of GOATMovieEnricher.      *)
(***************************************************************************)
\* the names searched: a title, the title with a format word, a bare format word
GoatNames == { <<"DUNE">>, <<"DUNE", "3D">>, <<"3D">> }

\* load_cache: no cache file, or a file left by an earlier run
LoadedCaches == { <<>>, (md5(<<"DUNE">>) :> NoInfo) }

InitSearch ==
    /\ cache \in LoadedCaches
    /\ invoked = <<>>
    /\ ncalls = 0
    /\ last_search = NoSearch
    /\ IdleNorm /\ IdleStd /\ IdleProp /\ IdleCat /\ IdleVal /\ IdleFam /\ IdleAttr /\ IdleRate /\ IdleFile

\* one call of comprehensive_search
ComprehensiveSearch ==
    /\ ncalls < MaxCalls
    /\ \E name \in GoatNames, resp \in AdapterResponses :
        LET r == comprehensive_search(cache, name, resp)
        IN  /\ cache' = r.cache
            /\ invoked' = CountInvocations(invoked, r.name, r.used)
            /\ last_search' = [kind |-> r.kind, name |-> r.name, result |-> r.result,
                               used |-> r.used, resp |-> r.resp]
    /\ ncalls' = ncalls + 1
    /\ UNCHANGED othersGoat

NextSearch == ComprehensiveSearch

SpecSearch == InitSearch /\ [][NextSearch]_vars

\* C9: in the result of a search, every field holds the value of the first
\* adapter, in the order Cinepolis, Wikipedia, IMDb, that returned a
\* non-empty value for it, and is empty when none did.
C9_FirstNonEmptyWins ==
    last_search.kind = "searched" =>
        \A key \in DOMAIN NoInfo :
            LET givers == { s \in last_search.used : last_search.resp[s].info[key] # Empty }
            IN  last_search.result[key] =
                    IF givers = {} THEN Empty
                    ELSE last_search.resp[Smallest(givers)].info[key]

\* Cinepolis gave a category only, Wikipedia another category and a director:
\* the result has the category of Cinepolis and the director of Wikipedia
C9_Witness ==
    /\ last_search.kind = "searched"
    /\ 2 \in last_search.used
    /\ last_search.resp[1].info.categoria = SourceValue(1)
    /\ last_search.resp[1].info.director = Empty
    /\ last_search.resp[2].info.categoria = SourceValue(2)
    /\ last_search.resp[2].info.director = SourceValue(2)
    /\ last_search.result.categoria = SourceValue(1)
    /\ last_search.result.director = SourceValue(2)

\* C10: within one run no adapter is invoked more than once for a name, and a
\* call for a name that is in the cache invokes no adapter, leaves the cache
\* as it is and returns the cached result, empty or not.
C10_AtMostOneQueryPerName ==
    [][ ncalls' = ncalls + 1 =>
          /\ \A p \in DOMAIN invoked' : invoked'[p] <= 1
          /\ md5(last_search'.name) \in DOMAIN cache =>
                /\ last_search'.used = {}
                /\ invoked' = invoked
                /\ cache' = cache
                /\ last_search'.result = cache[md5(last_search'.name)] ]_vars

\* a name was searched, every adapter returned nothing, and the next call
\* for it was served from the cache with the empty result
C10_Witness ==
    /\ last_search.kind = "hit"
    /\ last_search.result = NoInfo
    /\ <<last_search.name, 1>> \in DOMAIN invoked
    /\ invoked[<<last_search.name, 1>>] = 1

\* the fields of a search result that hold a value of adapter s
ContributedBy(s) == { key \in DOMAIN NoInfo : last_search.result[key] = SourceValue(s) }

-----------------------------------------------------------------------------
(***************************************************************************)
(* Category normalization of the final processors                          *)
(* (fix_categories_single_word, fix_categories_enhanced).  A category text *)
(* is a sequence of characters.                                            *)
(***************************************************************************)
LowerLetters ==
    <<"a","b","c","d","e","f","g","h","i","j","k","l","m","n","o","p","q","r",
      "s","t","u","v","w","x","y","z","á","é","í","ó","ú","ñ">>

UpperLetters ==
    <<"A","B","C","D","E","F","G","H","I","J","K","L","M","N","O","P","Q","R",
      "S","T","U","V","W","X","Y","Z","Á","É","Í","Ó","Ú","Ñ">>

\* str.upper() on a category text
CatUpperChar(c) ==
    IF \E i \in 1..Len(LowerLetters) : LowerLetters[i] = c
    THEN UpperLetters[CHOOSE i \in 1..Len(LowerLetters) : LowerLetters[i] = c]
    ELSE c

CatUpper(s) == [i \in 1..Len(s) |-> CatUpperChar(s[i])]

\* str.isalpha()
IsAlpha(w) ==
    /\ w # <<>>
    /\ \A i \in 1..Len(w) :
          \E j \in 1..Len(LowerLetters) : w[i] = LowerLetters[j] \/ w[i] = UpperLetters[j]

\* the separators of re.split(r'[,;\s/]+', cat_str)
IsCatSep(c) == c \in {",", ";", "/"} \/ IsSpace(c)

\* re.split(r'[,;\s/]+', s): the pieces between runs of separators, the empty
\* pieces at the ends included
RECURSIVE SplitCategory(_)
SplitCategory(s) ==
    LET seps == { i \in 1..Len(s) : IsCatSep(s[i]) }
    IN  IF seps = {} THEN <<s>>
        ELSE LET i == CHOOSE a \in seps : \A b \in seps : a <= b
                 rest == { j \in i..Len(s) : ~IsCatSep(s[j]) }
                 j == IF rest = {} THEN Len(s) + 1
                      ELSE CHOOSE a \in rest : \A b \in rest : a <= b
             IN  <<SubSeq(s, 1, i - 1)>> \o SplitCategory(SubSeq(s, j, Len(s)))

\* word[:n]
Prefix(w, n) == SubSeq(w, 1, Min(n, Len(w)))

\* movies_master_processor.py:58-68
category_map ==
    (<<"A","C","C","I","Ó","N">> :> <<"A","C","C","I","O","N">>)   \* 'ACCIÓN': 'ACCION'
    @@ (<<"A","C","T","I","O","N">> :> <<"A","C","C","I","O","N">>)   \* 'ACTION': 'ACCION'
    @@ (<<"A","V","E","N","T","U","R","A">> :> <<"A","V","E","N","T","U","R","A">>)   \* 'AVENTURA': 'AVENTURA'
    @@ (<<"D","R","A","M","A">> :> <<"D","R","A","M","A">>)   \* 'DRAMA': 'DRAMA'
    @@ (<<"B","I","O","G","R","A","F","Í","A">> :> <<"D","R","A","M","A">>)   \* 'BIOGRAFÍA': 'DRAMA'
    @@ (<<"H","I","S","T","Ó","R","I","C","O">> :> <<"D","R","A","M","A">>)   \* 'HISTÓRICO': 'DRAMA'
    @@ (<<"C","O","M","E","D","I","A">> :> <<"C","O","M","E","D","I","A">>)   \* 'COMEDIA': 'COMEDIA'
    @@ (<<"C","O","M","E","D","Y">> :> <<"C","O","M","E","D","I","A">>)   \* 'COMEDY': 'COMEDIA'
    @@ (<<"T","E","R","R","O","R">> :> <<"T","E","R","R","O","R">>)   \* 'TERROR': 'TERROR'
    @@ (<<"H","O","R","R","O","R">> :> <<"T","E","R","R","O","R">>)   \* 'HORROR': 'TERROR'
    @@ (<<"T","H","R","I","L","L","E","R">> :> <<"T","H","R","I","L","L","E","R">>)   \* 'THRILLER': 'THRILLER'
    @@ (<<"S","U","S","P","E","N","S","E">> :> <<"T","H","R","I","L","L","E","R">>)   \* 'SUSPENSE': 'THRILLER'
    @@ (<<"C","I","E","N","C","I","A">> :> <<"C","I","E","N","C","I","A","_","F","I","C","C","I","O","N">>)   \* 'CIENCIA': 'CIENCIA_FICCION'
    @@ (<<"F","A","N","T","A","S","Í","A">> :> <<"F","A","N","T","A","S","I","A">>)   \* 'FANTASÍA': 'FANTASIA'
    @@ (<<"A","N","I","M","A","C","I","Ó","N">> :> <<"A","N","I","M","A","C","I","O","N">>)   \* 'ANIMACIÓN': 'ANIMACION'
    @@ (<<"A","N","I","M","A","T","I","O","N">> :> <<"A","N","I","M","A","C","I","O","N">>)   \* 'ANIMATION': 'ANIMACION'
    @@ (<<"R","O","M","A","N","C","E">> :> <<"R","O","M","A","N","C","E">>)   \* 'ROMANCE': 'ROMANCE'
    @@ (<<"D","O","C","U","M","E","N","T","A","L">> :> <<"D","O","C","U","M","E","N","T","A","L">>)   \* 'DOCUMENTAL': 'DOCUMENTAL'
    @@ (<<"M","U","S","I","C","A","L">> :> <<"M","U","S","I","C","A","L">>)   \* 'MUSICAL': 'MUSICAL'

\* final_processor.py:124-151
category_mapping ==
    (<<"A","C","C","I","Ó","N">> :> <<"A","C","C","I","O","N">>)   \* 'ACCIÓN': 'ACCION'
    @@ (<<"A","C","T","I","O","N">> :> <<"A","C","C","I","O","N">>)   \* 'ACTION': 'ACCION'
    @@ (<<"A","V","E","N","T","U","R","A">> :> <<"A","V","E","N","T","U","R","A">>)   \* 'AVENTURA': 'AVENTURA'
    @@ (<<"A","D","V","E","N","T","U","R","E">> :> <<"A","V","E","N","T","U","R","A">>)   \* 'ADVENTURE': 'AVENTURA'
    @@ (<<"A","C","C","I","O","N"," ","Y"," ","A","V","E","N","T","U","R","A">> :> <<"A","C","C","I","O","N">>)   \* 'ACCION Y AVENTURA': 'ACCION'
    @@ (<<"D","R","A","M","A">> :> <<"D","R","A","M","A">>)   \* 'DRAMA': 'DRAMA'
    @@ (<<"B","I","O","G","R","A","F","Í","A">> :> <<"D","R","A","M","A">>)   \* 'BIOGRAFÍA': 'DRAMA'
    @@ (<<"B","I","O","P","I","C">> :> <<"D","R","A","M","A">>)   \* 'BIOPIC': 'DRAMA'
    @@ (<<"H","I","S","T","Ó","R","I","C","O">> :> <<"D","R","A","M","A">>)   \* 'HISTÓRICO': 'DRAMA'
    @@ (<<"H","I","S","T","O","R","Y">> :> <<"D","R","A","M","A">>)   \* 'HISTORY': 'DRAMA'
    @@ (<<"B","I","O","G","R","A","P","H","Y">> :> <<"D","R","A","M","A">>)   \* 'BIOGRAPHY': 'DRAMA'
    @@ (<<"C","O","M","E","D","I","A">> :> <<"C","O","M","E","D","I","A">>)   \* 'COMEDIA': 'COMEDIA'
    @@ (<<"C","O","M","E","D","Y">> :> <<"C","O","M","E","D","I","A">>)   \* 'COMEDY': 'COMEDIA'
    @@ (<<"H","U","M","O","R">> :> <<"C","O","M","E","D","I","A">>)   \* 'HUMOR': 'COMEDIA'
    @@ (<<"T","E","R","R","O","R">> :> <<"T","E","R","R","O","R">>)   \* 'TERROR': 'TERROR'
    @@ (<<"H","O","R","R","O","R">> :> <<"T","E","R","R","O","R">>)   \* 'HORROR': 'TERROR'
    @@ (<<"M","I","E","D","O">> :> <<"T","E","R","R","O","R">>)   \* 'MIEDO': 'TERROR'
    @@ (<<"T","H","R","I","L","L","E","R">> :> <<"T","H","R","I","L","L","E","R">>)   \* 'THRILLER': 'THRILLER'
    @@ (<<"S","U","S","P","E","N","S","E">> :> <<"T","H","R","I","L","L","E","R">>)   \* 'SUSPENSE': 'THRILLER'
    @@ (<<"S","U","S","P","E","N","S","O">> :> <<"T","H","R","I","L","L","E","R">>)   \* 'SUSPENSO': 'THRILLER'
    @@ (<<"C","I","E","N","C","I","A"," ","F","I","C","C","I","Ó","N">> :> <<"C","I","E","N","C","I","A","_","F","I","C","C","I","O","N">>)   \* 'CIENCIA FICCIÓN': 'CIENCIA_FICCION'
    @@ (<<"S","C","I","-","F","I">> :> <<"C","I","E","N","C","I","A","_","F","I","C","C","I","O","N">>)   \* 'SCI-FI': 'CIENCIA_FICCION'
    @@ (<<"F","A","N","T","A","S","Í","A">> :> <<"F","A","N","T","A","S","I","A">>)   \* 'FANTASÍA': 'FANTASIA'
    @@ (<<"F","A","N","T","A","S","Y">> :> <<"F","A","N","T","A","S","I","A">>)   \* 'FANTASY': 'FANTASIA'
    @@ (<<"A","N","I","M","A","C","I","Ó","N">> :> <<"A","N","I","M","A","C","I","O","N">>)   \* 'ANIMACIÓN': 'ANIMACION'
    @@ (<<"A","N","I","M","A","T","I","O","N">> :> <<"A","N","I","M","A","C","I","O","N">>)   \* 'ANIMATION': 'ANIMACION'
    @@ (<<"A","N","I","M","A","D","O">> :> <<"A","N","I","M","A","C","I","O","N">>)   \* 'ANIMADO': 'ANIMACION'
    @@ (<<"R","O","M","A","N","C","E">> :> <<"R","O","M","A","N","C","E">>)   \* 'ROMANCE': 'ROMANCE'
    @@ (<<"R","O","M","Á","N","T","I","C","O">> :> <<"R","O","M","A","N","C","E">>)   \* 'ROMÁNTICO': 'ROMANCE'
    @@ (<<"D","O","C","U","M","E","N","T","A","L">> :> <<"D","O","C","U","M","E","N","T","A","L">>)   \* 'DOCUMENTAL': 'DOCUMENTAL'
    @@ (<<"D","O","C","U","M","E","N","T","A","R","Y">> :> <<"D","O","C","U","M","E","N","T","A","L">>)   \* 'DOCUMENTARY': 'DOCUMENTAL'
    @@ (<<"M","U","S","I","C","A","L">> :> <<"M","U","S","I","C","A","L">>)   \* 'MUSICAL': 'MUSICAL'
    @@ (<<"M","Ú","S","I","C","A">> :> <<"M","U","S","I","C","A","L">>)   \* 'MÚSICA': 'MUSICAL'

\* movies_master_processor.py:82
priorities == <<<<"A","C","C","I","O","N">>, <<"T","E","R","R","O","R">>, <<"C","O","M","E","D","I","A">>, <<"D","R","A","M","A">>, <<"A","N","I","M","A","C","I","O","N">>>>

DRAMA == <<"D","R","A","M","A">>


\* fix_categories_single_word.get_best_category
get_best_category(cat_text_in) ==
    IF cat_text_in = NaN THEN DRAMA
    ELSE
    LET cat_str == Strip(CatUpper(cat_text_in))
        words == SplitCategory(cat_str)
        mapped(p) == \E i \in 1..Len(words) :
                        words[i] \in DOMAIN category_map /\ category_map[words[i]] = p
        hits == { n \in 1..Len(priorities) : mapped(priorities[n]) }
        valid == { i \in 1..Len(words) : Len(words[i]) > 2 /\ IsAlpha(words[i]) }
    IN  IF cat_str \in DOMAIN category_map THEN category_map[cat_str]
        ELSE IF hits # {} THEN priorities[Smallest(hits)]
        ELSE IF valid # {} THEN Prefix(words[Smallest(valid)], 12)
        ELSE DRAMA

\* fix_categories_enhanced.get_best_single_category
get_best_single_category(cat_text_in) ==
    IF cat_text_in = NaN THEN DRAMA
    ELSE
    LET cat_str == Strip(CatUpper(cat_text_in))
        words == SplitCategory(cat_str)
        known == { i \in 1..Len(words) : words[i] \in DOMAIN category_mapping }
    IN  IF cat_str \in DOMAIN category_mapping THEN category_mapping[cat_str]
        ELSE IF known # {} THEN category_mapping[words[Smallest(known)]]
        ELSE IF Len(words) = 1 /\ Len(words[1]) > 2 THEN Prefix(words[1], 15)
        ELSE DRAMA


MaxCatWords == 2

\* the words category texts are made of
CatWords ==
    { <<"D","r","a","m","a">>,   \* Drama
      <<"A","C","C","I","Ó","N">>,   \* ACCIÓN
      <<"S","u","s","p","e","n","s","e">>,   \* Suspense
      <<"C","I","E","N","C","I","A">>,   \* CIENCIA
      <<"F","I","C","C","I","Ó","N">>,   \* FICCIÓN
      <<"W","e","s","t","e","r","n">>,   \* Western
      <<"H","o","r","r","o","r">>,   \* Horror
      <<"S","c","i","-","F","i">>,   \* Sci-Fi
      <<"A","b">>,   \* Ab
      <<"E","x","t","r","a","o","r","d","i","n","a","r","i","a","m","e","n","t","e">> }   \* Extraordinariamente

\* what stands between two words of a text
CatSeps == { <<" ">>, <<",", " ">>, <<"/">> }

RECURSIVE JoinCat(_, _)
JoinCat(ws, sep) ==
    IF Len(ws) = 1 THEN ws[1] ELSE ws[1] \o sep \o JoinCat(Tail(ws), sep)

\* the CATEGORIA cells of the input file: missing, blank, or words, with or
\* without blanks around them
CategoryTexts ==
    { NaN, <<" ">> }
    \cup { IF pad THEN <<" ">> \o JoinCat(ws, sep) \o <<" ">> ELSE JoinCat(ws, sep) :
              ws \in UNION { [1..n -> CatWords] : n \in 1..MaxCatWords },
              sep \in CatSeps, pad \in BOOLEAN }

InitCategory ==
    /\ cat_proc \in {"Master", "Enhanced"}
    /\ cat_pc = "raw"
    /\ cat_text \in CategoryTexts
    /\ categoria = cat_text
    /\ categoria_cinepolis = NaN
    /\ IdleNorm /\ IdleStd /\ IdleProp /\ IdleGoat /\ IdleVal /\ IdleFam /\ IdleAttr /\ IdleRate /\ IdleFile

\* MoviesMasterProcessor.fix_categories_single_word on one row
FixCategoriesSingleWord ==
    /\ cat_proc = "Master" /\ cat_pc = "raw"
    /\ categoria' = get_best_category(categoria)
    /\ categoria_cinepolis' = categoria'
    /\ cat_pc' = "done"
    /\ UNCHANGED <<cat_proc, cat_text>>
    /\ UNCHANGED othersCat

\* EnhancedMoviesProcessor.fix_categories_enhanced on one row
FixCategoriesEnhanced ==
    /\ cat_proc = "Enhanced" /\ cat_pc = "raw"
    /\ categoria' = get_best_single_category(categoria)
    /\ categoria_cinepolis' = categoria'
    /\ cat_pc' = "done"
    /\ UNCHANGED <<cat_proc, cat_text>>
    /\ UNCHANGED othersCat

NextCategory == FixCategoriesSingleWord \/ FixCategoriesEnhanced

SpecCategory == InitCategory /\ [][NextCategory]_vars

\* the target values of the mapping of a processor
Vocabulary(proc) ==
    IF proc = "Master" THEN { category_map[k] : k \in DOMAIN category_map }
    ELSE { category_mapping[k] : k \in DOMAIN category_mapping }

\* neither the text nor one of its words is a key of the mapping
Unclassifiable(proc, text) ==
    LET keys == IF proc = "Master" THEN DOMAIN category_map ELSE DOMAIN category_mapping
        cat_str == Strip(CatUpper(text))
        words == SplitCategory(cat_str)
    IN  cat_str \notin keys /\ \A i \in 1..Len(words) : words[i] \notin keys

\* C8: after category normalization CATEGORIA is one token without
\* whitespace, it is a target value of the category mapping, and a missing or
\* unclassifiable input gives DRAMA.
C8_CategoryInVocabulary ==
    cat_pc = "done" =>
        /\ categoria # <<>>
        /\ \A i \in 1..Len(categoria) : ~IsSpace(categoria[i])
        /\ categoria \in Vocabulary(cat_proc)
        /\ (cat_text = NaN \/ Unclassifiable(cat_proc, cat_text)) => categoria = DRAMA

\* the part of C8 about the shape of the value: one token, no whitespace,
\* and DRAMA for a missing cell
C8_SingleToken ==
    cat_pc = "done" =>
        /\ categoria # <<>>
        /\ \A i \in 1..Len(categoria) : ~IsSpace(categoria[i])
        /\ cat_text = NaN => categoria = DRAMA

-----------------------------------------------------------------------------
\* the rank of key k among the distinct keys of table t
RankOf(t, k) == Cardinality({ x \in TableKeys(t) : x <= k })

\* the MOVIE_IDs in use in a table
IdsInUse(t) == { t[i].MOVIE_ID : i \in 1..Len(t) }

\* C12: after the re-indexing operation every record's MOVIE_ID is the
\* 1-based rank of its NOMBRE_UNICO among the sorted distinct keys, whatever
\* the IDs were before: the IDs in use are exactly 1..N for N keys, two
\* records have the same ID exactly when they have the same key, and no
\* other column changes.
C12_RemapIsRankBijection ==
    last_step \in {"remap_movie_ids_perfect", "remap_movie_ids_optimized"} =>
        /\ Len(df) = Len(df_before)
        /\ \A i \in 1..Len(df) :
              /\ df[i] = [df_before[i] EXCEPT !.MOVIE_ID = df[i].MOVIE_ID]
              /\ df[i].MOVIE_ID = RankOf(df, df[i].NOMBRE_UNICO)
        /\ IdsInUse(df) = 1..Cardinality(TableKeys(df))
        /\ \A i, j \in 1..Len(df) :
              df[i].MOVIE_ID = df[j].MOVIE_ID <=> df[i].NOMBRE_UNICO = df[j].NOMBRE_UNICO

\* a table whose first record has the larger key, and in which one key had
\* two IDs, one of them the ID of the other key, has been re-indexed
C12_Witness ==
    /\ last_step = "remap_movie_ids_perfect"
    /\ Len(df) = 3
    /\ df_before[1].NOMBRE_UNICO = 2 /\ df_before[1].MOVIE_ID = InputId(2)
    /\ df_before[2].NOMBRE_UNICO = 1 /\ df_before[2].MOVIE_ID = InputId(2)
    /\ df_before[3].NOMBRE_UNICO = 1 /\ df_before[3].MOVIE_ID = InputId(1)
    /\ df[1].MOVIE_ID = 2 /\ df[2].MOVIE_ID = 1 /\ df[3].MOVIE_ID = 1
-----------------------------------------------------------------------------
\* the IDs held by the catalog of process_all_records
CatalogIds == { unique_catalog[k].MOVIE_ID : k \in DOMAIN unique_catalog }

\* C13: in the second pass of process_all_records a record whose non-empty
\* key is not in the catalog completed by the first pass gets a new
\* MOVIE_ID, greater than every ID of the catalog, and never a placeholder.
C13_UnknownKeyGetsFreshId ==
    std_mode = "all_records" =>
        \A i \in 1..Len(output) :
            ( /\ output[i].NOMBRE_UNICO # <<>>
              /\ Upper(output[i].NOMBRE_UNICO) \notin DOMAIN unique_catalog )
            => /\ output[i].MOVIE_ID # 0
               /\ \A id \in CatalogIds : output[i].MOVIE_ID > id

\* C14: in the table written by process_all_records and by process, every
\* record with an empty key has a MOVIE_ID greater than the ID of every
\* record with a non-empty key, and no record has MOVIE_ID 0.
C14_EmptyKeyGetsTrailingId ==
    std_pc = "done" =>
        \A i \in 1..Len(output) :
            /\ output[i].MOVIE_ID # 0
            /\ output[i].NOMBRE_UNICO = <<>> =>
                  \A j \in 1..Len(output) :
                      output[j].NOMBRE_UNICO # <<>> => output[i].MOVIE_ID > output[j].MOVIE_ID

\* the same statement for MovieStandardizer.process alone
C14_ProcessAlone == std_mode = "process" => C14_EmptyKeyGetsTrailingId

\* the part of C14 about GOATMovieEnricher.reassign_movie_ids: the records
\* without a key get one ID each, after the IDs of the keys, and none is 0
C14_ReassignAlone ==
    last_step = "reassign_movie_ids" =>
        \A i \in 1..Len(df) :
            /\ df[i].MOVIE_ID > 0
            /\ df[i].NOMBRE_UNICO = Empty =>
                  \A j \in 1..Len(df) :
                      j # i => /\ df[j].MOVIE_ID # df[i].MOVIE_ID
                               /\ df[j].NOMBRE_UNICO # Empty => df[i].MOVIE_ID > df[j].MOVIE_ID

\* the IDs the records of key k carry in table t
IdsOfKey(t, k) == { t[i].MOVIE_ID : i \in { j \in 1..Len(t) : t[j].NOMBRE_UNICO = k } }

\* C15: no stage changes the MOVIE_ID of a key that has one: a non-empty key
\* whose records all carry one ID before a step carries the same ID after
\* it, and an ID carried by one key before a step is not carried after it by
\* another key that did not carry it before.
C15_AssignedIdsAreStable ==
    [][ /\ Len(df') = Len(df)
        /\ \A k \in TableKeys(df) \ {Empty} :
              Cardinality(IdsOfKey(df, k)) = 1 => IdsOfKey(df', k) = IdsOfKey(df, k)
        /\ \A k1 \in TableKeys(df) \ {Empty}, k2 \in TableKeys(df') \ {Empty} :
              (Cardinality(IdsOfKey(df, k1)) = 1 /\ k1 # k2)
                  => (IdsOfKey(df, k1) \cap IdsOfKey(df', k2)) \subseteq IdsOfKey(df, k2) ]_vars
-----------------------------------------------------------------------------
(***************************************************************************)
(* Quality validation: validate_dataset on the final file, and the         *)
(* validators inside the two final processors.                             *)
(***************************************************************************)

\* the keys of df.groupby('NOMBRE_UNICO'): groupby drops the missing keys,
\* which is how pd.read_csv reads an empty cell
GroupbyKeys(t) == TableKeys(t) \ {Empty}

\* df.groupby('NOMBRE_UNICO')['MOVIE_ID'].nunique().max() == 1; the max of
\* an empty series is NaN, which is not equal to 1
mapping_ok(t) ==
    /\ GroupbyKeys(t) # {}
    /\ \A k \in GroupbyKeys(t) : Cardinality(IdsOfKey(t, k)) = 1

\* df.duplicated().sum() == 0
no_duplicates(t) == \A i, j \in 1..Len(t) : i # j => t[i] # t[j]

\* (df['CATEGORIA'] == df['CATEGORIA_CINEPOLIS']).all(); a missing cell is
\* not equal to a missing cell
category_coherence(t) ==
    \A i \in 1..Len(t) :
        t[i].CATEGORIA # Empty /\ t[i].CATEGORIA = t[i].CATEGORIA_CINEPOLIS

\* the checks of a validator; rest_ok stands for the checks on what a row
\* of the model does not carry (number of rows and columns, number of
\* movies, completeness, language coherence, clean fields)
run_validations(t, rest_ok) ==
    [mapping_ok |-> mapping_ok(t),
     no_duplicates |-> no_duplicates(t),
     category_coherence |-> category_coherence(t),
     rest_ok |-> rest_ok]

\* score == 100, passed == len(checks): every check passed
Certified(v) == v.mapping_ok /\ v.no_duplicates /\ v.category_coherence /\ v.rest_ok

Validators == {"validate_dataset", "validate_final_quality", "validate_complete_quality"}

InitValidate ==
    /\ validator \in Validators
    /\ val_pc = "loaded"
    /\ val_df \in PropTables
    /\ validations = <<>>
    /\ IdleNorm /\ IdleStd /\ IdleProp /\ IdleGoat /\ IdleCat /\ IdleFam /\ IdleAttr /\ IdleRate /\ IdleFile

\* validate_dataset(file_path)
ValidateDataset ==
    /\ validator = "validate_dataset" /\ val_pc = "loaded"
    /\ \E rest_ok \in BOOLEAN : validations' = run_validations(val_df, rest_ok)
    /\ val_pc' = "done"
    /\ UNCHANGED <<validator, val_df>>
    /\ UNCHANGED othersVal

\* MoviesMasterProcessor.validate_final_quality(df)
ValidateFinalQuality ==
    /\ validator = "validate_final_quality" /\ val_pc = "loaded"
    /\ \E rest_ok \in BOOLEAN : validations' = run_validations(val_df, rest_ok)
    /\ val_pc' = "done"
    /\ UNCHANGED <<validator, val_df>>
    /\ UNCHANGED othersVal

\* EnhancedMoviesProcessor.validate_complete_quality(df)
ValidateCompleteQuality ==
    /\ validator = "validate_complete_quality" /\ val_pc = "loaded"
    /\ \E rest_ok \in BOOLEAN : validations' = run_validations(val_df, rest_ok)
    /\ val_pc' = "done"
    /\ UNCHANGED <<validator, val_df>>
    /\ UNCHANGED othersVal

NextValidate == ValidateDataset \/ ValidateFinalQuality \/ ValidateCompleteQuality

SpecValidate == InitValidate /\ [][NextValidate]_vars

\* some key of the table has more than one MOVIE_ID
KeyWithTwoIds(t) == \E k \in GroupbyKeys(t) : Cardinality(IdsOfKey(t, k)) > 1

\* two distinct keys of the table share a MOVIE_ID
IdWithTwoKeys(t) ==
    \E k1, k2 \in GroupbyKeys(t) : k1 # k2 /\ IdsOfKey(t, k1) \cap IdsOfKey(t, k2) # {}

\* C16: whenever the table given to a validator has a key with more than
\* one MOVIE_ID, or two distinct keys with the same MOVIE_ID, the 1:1
\* mapping check fails and the table is not certified.
C16_ValidatorRejectsBrokenMapping ==
    (val_pc = "done" /\ (KeyWithTwoIds(val_df) \/ IdWithTwoKeys(val_df)))
        => (~validations.mapping_ok /\ ~Certified(validations))

\* the direction of C16 that the check covers: a key with two IDs
C16_KeyWithTwoIdsRejected ==
    (val_pc = "done" /\ KeyWithTwoIds(val_df))
        => (~validations.mapping_ok /\ ~Certified(validations))
-----------------------------------------------------------------------------
(***************************************************************************)
(* MovieStandardizer.detect_family                                         *)
(***************************************************************************)
\* [IVX]
RomanChars == {"I", "V", "X"}

\* re.sub(r'\s+[chars]+\s*$', '', s): the last token, when it is made of
\* chars only and has whitespace before it, goes with that whitespace
RemoveTrailingRun(s, chars) ==
    LET t == RStrip(s)
        e == Len(t)
    IN  IF t = <<>> \/ t[e] \notin chars THEN s
        ELSE LET b == CHOOSE i \in 1..e :
                        /\ \A k \in i..e : t[k] \in chars
                        /\ i = 1 \/ t[i - 1] \notin chars
             IN  IF b >= 2 /\ IsSpace(t[b - 1])
                 THEN RStrip(SubSeq(t, 1, b - 1))
                 ELSE s

\* re.sub(r':\s+.*$', '', s): from the first colon that whitespace follows
CutFromColon(s) ==
    LET starts == { i \in 1..(Len(s) - 1) : s[i] = ":" /\ IsSpace(s[i + 1]) }
    IN  IF starts = {} THEN s
        ELSE SubSeq(s, 1, (CHOOSE i \in starts : \A k \in starts : i <= k) - 1)

\* re.sub(r'\s+-\s+.*$', '', s): from the whitespace before the first dash
\* that stands between whitespace
CutFromDash(s) ==
    LET starts == { i \in 1..Len(s) :
                      /\ IsSpace(s[i])
                      /\ \E j \in (i + 1)..(Len(s) - 1) :
                            /\ \A k \in i..(j - 1) : IsSpace(s[k])
                            /\ s[j] = "-"
                            /\ IsSpace(s[j + 1]) }
    IN  IF starts = {} THEN s
        ELSE SubSeq(s, 1, (CHOOSE i \in starts : \A k \in starts : i <= k) - 1)

\* MovieStandardizer.detect_family
detect_family(titulo_limpio_clean) ==
    IF titulo_limpio_clean = NaN \/ titulo_limpio_clean = <<>>
    THEN titulo_limpio_clean
    ELSE Strip(CutFromDash(CutFromColon(
            RemoveTrailingRun(RemoveTrailingRun(titulo_limpio_clean, Digits),
                              RomanChars))))

MaxFamTokens == 3   \* tokens of a title

\* words, a sequel number, Roman numerals, a word with a colon, a dash
FamTokens ==
    { tDUNE, tREY, <<"2">>, <<"1","0">>, <<"I","I">>, <<"X">>,
      tDUNE \o <<":">>, <<"2",":">>, <<"-">> }

\* level-2 titles: upper case, single spaces, no marker
FamTitles ==
    { Join(T) : T \in UNION { [1..n -> FamTokens] : n \in 1..MaxFamTokens } }
    \cup { NaN, <<>> }

InitFamily ==
    /\ fam_title \in FamTitles
    /\ familia = <<>>
    /\ IdleNorm /\ IdleStd /\ IdleProp /\ IdleGoat /\ IdleCat /\ IdleVal /\ IdleAttr /\ IdleRate /\ IdleFile

\* process_batch, FAMILIA = detect_family(NOMBRE_ORIGINAL_CLEAN)
DetectFamily ==
    /\ Len(familia) = 0
    /\ familia' = << detect_family(fam_title) >>
    /\ UNCHANGED fam_title
    /\ UNCHANGED othersFam

\* detect_family applied to a family key
DetectFamilyAgain ==
    /\ Len(familia) = 1
    /\ familia' = Append(familia, detect_family(familia[1]))
    /\ UNCHANGED fam_title
    /\ UNCHANGED othersFam

NextFamily == DetectFamily \/ DetectFamilyAgain

SpecFamily == InitFamily /\ [][NextFamily]_vars

\* C17: detect_family is idempotent: applied to its own result it returns
\* that result, for every level-2 title, those that combine a sequel
\* number, a Roman numeral and a subtitle included.
C17_DetectFamilyIdempotent ==
    Len(familia) = 2 => familia[2] = familia[1]
-----------------------------------------------------------------------------
(***************************************************************************)
(* MovieStandardizer.extract_format and extract_language                   *)
(***************************************************************************)
t4DX     == <<"4","D","X">>
tSCREENX == <<"S","C","R","E","E","N","X">>
tXE      == <<"X","E">>
tIMAX    == <<"I","M","A","X">>
t3D      == <<"3","D">>
tESP     == <<"E","S","P">>
tSUB     == <<"S","U","B">>
tDUB     == <<"D","U","B">>
tDOB     == <<"D","O","B">>
tSP      == <<"S","P">>

\* self.FORMAT_MAPPING
FORMAT_MAPPING ==
    (tESP :> "2D") @@ (tSUB :> "2D") @@ (tDUB :> "2D") @@ (tDOB :> "2D")
    @@ (tSP :> "2D")
    @@ (t4DX :> "4D")
    @@ (Join(<<t4DX, t3D>>) :> "4D")
    @@ (t4DX \o <<"/">> \o t3D :> "4D")
    @@ (t4DX \o <<"/","2","D">> :> "4D")
    @@ (Join(<<t4DX, t3D, tDOB>>) :> "4D")
    @@ (Join(<<t4DX, t3D, tDUB>>) :> "4D")
    @@ (Join(<<t4DX, t3D, tSUB>>) :> "4D")
    @@ (tSCREENX :> "SCREENX")
    @@ (Join(<<tXE, tSCREENX>>) :> "SCREENX")
    @@ (tXE :> "SCREENX")
    @@ (tIMAX :> "IMAX")
    @@ (t3D :> "3D")
    @@ (Join(<<t3D, tESP>>) :> "3D")
    @@ (Join(<<t3D, tSUB>>) :> "3D")
    @@ (Join(<<t3D, tDOB>>) :> "3D")

\* tok in s
Contains(s, tok) ==
    \E i \in 1..(Len(s) - Len(tok) + 1) : SubSeq(s, i, i + Len(tok) - 1) = tok

\* an extractor that looks for IMAX before 4DX
extract_format_imax_first(movie_name, movie_format) ==
    IF movie_name = NaN /\ movie_format = NaN THEN "2D"
    ELSE IF /\ movie_format # <<>> /\ movie_format # NaN
            /\ Strip(Upper(movie_format)) \in DOMAIN FORMAT_MAPPING
    THEN FORMAT_MAPPING[Strip(Upper(movie_format))]
    ELSE LET name_upper == IF movie_name # NaN THEN Upper(movie_name) ELSE <<>>
         IN  IF Contains(name_upper, tIMAX) THEN "IMAX"
             ELSE IF Contains(name_upper, t4DX) THEN "4D"
             ELSE IF Contains(name_upper, tSCREENX) \/ Contains(name_upper, tXE)
             THEN "SCREENX"
             ELSE IF Contains(name_upper, t3D) THEN "3D"
             ELSE "2D"

\* MovieStandardizer.extract_format
extract_format(movie_name, movie_format) ==
    IF movie_name = NaN /\ movie_format = NaN THEN "2D"
    ELSE IF /\ movie_format # <<>> /\ movie_format # NaN
            /\ Strip(Upper(movie_format)) \in DOMAIN FORMAT_MAPPING
    THEN FORMAT_MAPPING[Strip(Upper(movie_format))]
    ELSE LET name_upper == IF movie_name # NaN THEN Upper(movie_name) ELSE <<>>
         IN  IF Contains(name_upper, t4DX) THEN "4D"
             ELSE IF Contains(name_upper, tSCREENX) \/ Contains(name_upper, tXE)
             THEN "SCREENX"
             ELSE IF Contains(name_upper, tIMAX) THEN "IMAX"
             ELSE IF Contains(name_upper, t3D) THEN "3D"
             ELSE "2D"

\* re.search(r'\s+TOK\s*$', s)
EndsWithToken(s, tok) ==
    LET t == RStrip(s)
        at == Len(t) - Len(tok) + 1
    IN  at >= 2 /\ SubSeq(t, at, Len(t)) = tok /\ IsSpace(t[at - 1])

\* an extractor that returns the side-channel code as it is
extract_language_keep_dob(movie_name, movie_language) ==
    IF /\ movie_language # <<>> /\ movie_language # NaN
       /\ Strip(Upper(movie_language)) \in {tESP, tSUB, tDUB, tDOB}
    THEN Strip(Upper(movie_language))
    ELSE IF movie_name = NaN THEN tESP
    ELSE LET name_upper == Upper(movie_name)
         IN  IF EndsWithToken(name_upper, tESP) THEN tESP
             ELSE IF EndsWithToken(name_upper, tSUB) THEN tSUB
             ELSE IF EndsWithToken(name_upper, tDUB) \/ EndsWithToken(name_upper, tDOB)
             THEN tDUB
             ELSE tESP

\* MovieStandardizer.extract_language
extract_language(movie_name, movie_language) ==
    IF /\ movie_language # <<>> /\ movie_language # NaN
       /\ Strip(Upper(movie_language)) \in {tESP, tSUB, tDUB, tDOB}
    THEN IF Strip(Upper(movie_language)) # tDOB
         THEN Strip(Upper(movie_language)) ELSE tDUB
    ELSE IF movie_name = NaN THEN tESP
    ELSE LET name_upper == Upper(movie_name)
         IN  IF EndsWithToken(name_upper, tESP) THEN tESP
             ELSE IF EndsWithToken(name_upper, tSUB) THEN tSUB
             ELSE IF EndsWithToken(name_upper, tDUB) \/ EndsWithToken(name_upper, tDOB)
             THEN tDUB
             ELSE IF EndsWithToken(name_upper, tSP) THEN tESP
             ELSE tESP

MaxNameTokens == 2   \* tokens of a raw name

\* words (one of them with XE inside), format and language tokens in upper,
\* lower and mixed case, one with whitespace after it
NameTokens ==
    { tDUNE, <<"A","X","E","L">>, t4DX, tSCREENX, tIMAX, <<"3","d">>,
      tESP, <<"S","u","b">>, tDOB \o <<" ">>, <<"s","p">> }

RawNames ==
    { Join(T) : T \in UNION { [1..n -> NameTokens] : n \in 1..MaxNameTokens } }
    \cup { NaN, <<>> }

\* MOVIE_FORMAT cells: missing, empty, in the mapping, in the mapping after
\* upper and strip, not in the mapping
FormatCodes ==
    { NaN, <<>>, tXE, <<" ","4","d","x"," ","3","d"," ">>, tSUB, tDUNE }

\* MOVIE_LENGUAJE cells
LanguageCodes ==
    { NaN, <<>>, tESP, <<" ","s","u","b"," ">>, tDOB, tSP }

InitAttributes ==
    /\ row_name \in RawNames
    /\ row_format \in FormatCodes
    /\ row_lenguaje \in LanguageCodes
    /\ attr_pc = "start"
    /\ formato = NaN
    /\ idioma = NaN
    /\ IdleNorm /\ IdleStd /\ IdleProp /\ IdleGoat /\ IdleCat /\ IdleVal /\ IdleFam /\ IdleRate /\ IdleFile

\* process_batch, lines 267-270
ExtractFormat ==
    /\ attr_pc = "start"
    /\ formato' = extract_format(row_name, row_format)
    /\ attr_pc' = "format"
    /\ UNCHANGED <<row_name, row_format, row_lenguaje, idioma>>
    /\ UNCHANGED othersAttr

\* process_batch, lines 271-274
ExtractLanguage ==
    /\ attr_pc = "format"
    /\ idioma' = extract_language(row_name, row_lenguaje)
    /\ attr_pc' = "done"
    /\ UNCHANGED <<row_name, row_format, row_lenguaje, formato>>
    /\ UNCHANGED othersAttr

NextAttributes == ExtractFormat \/ ExtractLanguage

SpecAttributes == InitAttributes /\ [][NextAttributes]_vars

\* the side-channel code, upper case and trimmed; nothing when it is absent
TrimmedCode(code) == IF code = NaN THEN <<>> ELSE Strip(Upper(code))

\* the raw name in upper case; nothing when it is absent
UpperName(name) == IF name = NaN THEN <<>> ELSE Upper(name)

\* the stated order of the format tokens and what each stands for
FormatPriority ==
    << [tokens |-> {t4DX}, value |-> "4D"],
       [tokens |-> {tSCREENX, tXE}, value |-> "SCREENX"],
       [tokens |-> {tIMAX}, value |-> "IMAX"],
       [tokens |-> {t3D}, value |-> "3D"] >>

\* C18: extract_format returns, for every raw name and side-channel code,
\* absent ones included, the mapped value of the trimmed upper-case code
\* when the mapping table has it; otherwise the value of the first entry of
\* the priority order 4DX, SCREENX or XE, IMAX, 3D that occurs in the
\* upper-case name; otherwise 2D; it is always one of 2D, 3D, 4D, IMAX,
\* SCREENX.
C18_FormatFollowsOrder ==
    attr_pc \in {"format", "done"} =>
        /\ formato \in {"2D", "3D", "4D", "IMAX", "SCREENX"}
        /\ LET code == TrimmedCode(row_format)
               found == { i \in 1..Len(FormatPriority) :
                            \E tok \in FormatPriority[i].tokens :
                                Contains(UpperName(row_name), tok) }
           IN  formato =
                 IF code \in DOMAIN FORMAT_MAPPING THEN FORMAT_MAPPING[code]
                 ELSE IF found # {} THEN FormatPriority[Smallest(found)].value
                 ELSE "2D"

\* the code is not in the table and the name has IMAX before 4DX: 4D
C18_Witness ==
    /\ attr_pc = "format"
    /\ row_format = tDUNE
    /\ row_name = Join(<<tIMAX, t4DX>>)
    /\ formato = "4D"

\* the trailing tokens of a name and the language each stands for
LanguageOfToken ==
    (tESP :> tESP) @@ (tSUB :> tSUB) @@ (tDUB :> tDUB) @@ (tDOB :> tDUB) @@ (tSP :> tESP)

\* C19: extract_language returns, for every raw name and side-channel
\* code, absent ones included, the code when it is ESP, SUB, DUB or DOB,
\* with DOB turned into DUB; otherwise the language of the trailing ESP,
\* SUB, DUB, DOB or SP token of the name (DOB is DUB, SP is ESP); otherwise
\* ESP; it is always one of ESP, SUB, DUB.
C19_LanguageFollowsOrder ==
    attr_pc = "done" =>
        /\ idioma \in {tESP, tSUB, tDUB}
        /\ LET code == TrimmedCode(row_lenguaje)
               trailing == { tok \in DOMAIN LanguageOfToken :
                               EndsWithToken(UpperName(row_name), tok) }
           IN  idioma =
                 IF code \in {tESP, tSUB, tDUB, tDOB} THEN LanguageOfToken[code]
                 ELSE IF trailing # {}
                      THEN LanguageOfToken[CHOOSE tok \in trailing : TRUE]
                 ELSE tESP

\* the code is DOB and the name ends in a mixed-case Sub: DUB
C19_Witness ==
    /\ attr_pc = "done"
    /\ row_lenguaje = tDOB
    /\ row_name = Join(<<tDUNE, <<"S","u","b">> >>)
    /\ idioma = tDUB
-----------------------------------------------------------------------------
\* the two pipelines that propagate within groups: MovieEnricher.process and
\* GOATMovieEnricher.process
InitPropagation == InitTable({"MovieEnricher", "GOAT"})

NextPropagation == NextEnricher \/ NextGoat

SpecPropagation == InitPropagation /\ [][NextPropagation]_vars

\* the non-empty values the records of key k hold in field f
GroupValues(t, k, f) == { t[r][f] : r \in NonEmptyIdx(t, k, f) }

\* the keys of the groups of more than one record
SharedKeys(t) == { k \in TableKeys(t) \ {Empty} : Cardinality(GroupIdx(t, k)) > 1 }

\* after propagation every record of a group carries, in a coherent-set
\* field, the one value the group held in it
AgreedValueEverywhere ==
    \A k \in SharedKeys(df_before) : \A f \in CoherentSet :
        Cardinality(GroupValues(df_before, k, f)) = 1
            => \A i \in GroupIdx(df, k) : df[i][f] \in GroupValues(df_before, k, f)

-----------------------------------------------------------------------------
(***************************************************************************)
(* Variants and sequels of one title through the standardizer: the input   *)
(* file holds 'T <marker>', 'T <other marker>' and 'T 2'.                   *)
(***************************************************************************)
\* the columns process_batch derives besides the key, for a row whose
\* MOVIE_FORMAT and MOVIE_LENGUAJE cells are missing
batch_attributes(movie_name) ==
    [FORMATO |-> extract_format(movie_name, NaN),
     IDIOMA |-> extract_language(movie_name, NaN),
     FAMILIA |-> detect_family(process_batch(movie_name).NOMBRE_ORIGINAL_CLEAN)]

tXENON == <<"X","E","N","O","N">>

\* titles that do not end in an integer token
SequelTitles == { tDUNE, Join(<<tLA, tLAND>>), Join(<<tDUNE, tXENON>>) }

PlainTitles == { tDUNE, Join(<<tLA, tLAND>>) }

SequelMarkers == { tESP, tSUB, t3D, tIMAX }

SequelTable(T, m1, m2) ==
    << Join(<<T, m1>>), Join(<<T, m2>>), Join(<<T, <<"2">> >>) >>

SequelTables ==
    { SequelTable(T, m1, m2) :
        T \in SequelTitles, m1 \in SequelMarkers, m2 \in SequelMarkers }

InitSequel ==
    /\ std_mode \in {"all_records", "process"}
    /\ std_pc = "start"
    /\ input_rows \in SequelTables
    /\ template_rows \in Templates
    /\ read_pos = 0
    /\ unique_catalog = <<>>
    /\ movie_id_counter = 1
    /\ unique_to_id = <<>>
    /\ next_movie_id = 1
    /\ all_records = <<>>
    /\ output = <<>>
    /\ IdleNorm /\ IdleProp /\ IdleGoat /\ IdleCat /\ IdleVal /\ IdleFam /\ IdleAttr /\ IdleRate /\ IdleFile

SpecSequel == InitSequel /\ [][NextStd]_vars

\* the language code a marker stands for; a format marker leaves the default
MarkerLanguage(m) == IF m \in {tESP, tSUB} THEN m ELSE tESP

\* the statement of C21 for the titles of the set S
VariantsAndSequel(S) ==
    std_pc = "done" =>
        \A T \in S, m1, m2 \in SequelMarkers :
            input_rows = SequelTable(T, m1, m2) =>
                LET a == output[1]
                    b == output[2]
                    c == output[3]
                IN  /\ a.NOMBRE_UNICO = b.NOMBRE_UNICO
                    /\ a.MOVIE_ID = b.MOVIE_ID
                    /\ batch_attributes(a.MOVIE_NAME).FORMATO = FORMAT_MAPPING[m1]
                    /\ batch_attributes(b.MOVIE_NAME).FORMATO = FORMAT_MAPPING[m2]
                    /\ batch_attributes(a.MOVIE_NAME).IDIOMA = MarkerLanguage(m1)
                    /\ batch_attributes(b.MOVIE_NAME).IDIOMA = MarkerLanguage(m2)
                    /\ c.NOMBRE_UNICO # a.NOMBRE_UNICO
                    /\ c.MOVIE_ID # a.MOVIE_ID
                    /\ batch_attributes(c.MOVIE_NAME).FAMILIA = detect_family(T)
                    /\ detect_family(Join(<<T, <<"2">> >>)) = detect_family(T)

\* C21: for every title T that does not end in an integer token, the records
\* 'T <marker>' and 'T <other marker>' share one key and one MOVIE_ID and keep
\* their own FORMATO and IDIOMA, and 'T 2' gets another key and another
\* MOVIE_ID but the family of T.
C21_VariantsShareKeySequelSplits == VariantsAndSequel(SequelTitles)

\* the same statement for titles without a word that begins like a format
\* marker
C21_PlainTitles == VariantsAndSequel(PlainTitles)
-----------------------------------------------------------------------------
(***************************************************************************)
(* The enrichment loops as seen from the network: every outbound request   *)
(* and every time.sleep, in order.  The table updates of the same loops    *)
(* are the subject of GoatSearchOne and EnrichMissingOne.                   *)
(***************************************************************************)
MaxLookups == 2    \* names in the loop of one run

Delay == "sleep"

\* the request of each adapter of comprehensive_search, in the order of
\* search_funcs
SourceQuery(s) == <<"cinepolis", "wikipedia", "imdb">>[s]

IsQuery(e) == e # Delay

\* the requests of one comprehensive_search: one per adapter called
SearchQueries(used) ==
    LET called == SelectSeq(<<1, 2, 3>>, LAMBDA s : s \in used)
    IN  [i \in 1..Len(called) |-> SourceQuery(called[i])]

\* what search_movie_on_cinepolis and the page fetch send, and whether the
\* page was found: the direct URL answers, Google finds the page, nothing
\* is found, or the first request raises
PageLookups ==
    { [found |-> TRUE,  sent |-> <<"cinepolis", "page">>],
      [found |-> TRUE,  sent |-> <<"cinepolis", "google", "page">>],
      [found |-> FALSE, sent |-> <<"cinepolis", "google">>],
      [found |-> FALSE, sent |-> <<"cinepolis">>] }

\* distinct names, as the index of a groupby or the result of unique()
LookupQueues ==
    { q \in UNION { [1..n -> GoatNames \cup {<<>>}] : n \in 1..MaxLookups } :
        \A i, j \in 1..Len(q) : i # j => q[i] # q[j] }

InitRate ==
    /\ rate_proc \in {"GOAT", "MovieEnricher"}
    /\ rate_queue \in LookupQueues
    /\ lookup_cache \in (IF rate_proc = "GOAT" THEN LoadedCaches ELSE {<<>>})
    /\ net_log = <<>>
    /\ IdleNorm /\ IdleStd /\ IdleProp /\ IdleGoat /\ IdleCat /\ IdleVal /\ IdleFam /\ IdleAttr /\ IdleFile

\* GOATMovieEnricher.enrich_movies, lines 346-360: one iteration.  An empty
\* name is skipped; any other name is searched, and the loop then sleeps.
EnrichMoviesIteration ==
    /\ rate_proc = "GOAT"
    /\ rate_queue # <<>>
    /\ \E resp \in AdapterResponses :
        LET name == Head(rate_queue)
            r == comprehensive_search(lookup_cache, name, resp)
        IN  IF name = <<>>
            THEN UNCHANGED <<lookup_cache, net_log>>
            ELSE /\ lookup_cache' = r.cache
                 /\ net_log' = net_log \o SearchQueries(r.used) \o <<Delay>>
    /\ rate_queue' = Tail(rate_queue)
    /\ UNCHANGED rate_proc
    /\ UNCHANGED othersRate

\* MovieEnricher.enrich_missing_data, lines 270-304: one iteration.  A name
\* in the local cache is skipped; the loop sleeps only when a page was found.
EnrichMissingIteration ==
    /\ rate_proc = "MovieEnricher"
    /\ rate_queue # <<>>
    /\ \E lookup \in PageLookups, info \in WebInfos :
        LET name == Head(rate_queue)
        IN  IF name \in DOMAIN lookup_cache
            THEN UNCHANGED <<lookup_cache, net_log>>
            ELSE IF lookup.found
            THEN /\ lookup_cache' = (name :> info) @@ lookup_cache
                 /\ net_log' = net_log \o lookup.sent \o <<Delay>>
            ELSE /\ net_log' = net_log \o lookup.sent
                 /\ UNCHANGED lookup_cache
    /\ rate_queue' = Tail(rate_queue)
    /\ UNCHANGED rate_proc
    /\ UNCHANGED othersRate

NextRate == EnrichMoviesIteration \/ EnrichMissingIteration

SpecRate == InitRate /\ [][NextRate]_vars

\* C22: during enrichment the delay elapses between any two consecutive
\* outbound queries, the delay is taken per query, and a name served from
\* the cache causes neither a query nor a delay.
C22_DelayBetweenQueries ==
    /\ \A i \in 1..(Len(net_log) - 1) :
          ~(IsQuery(net_log[i]) /\ IsQuery(net_log[i + 1]))
    /\ \A i \in 1..Len(net_log) :
          net_log[i] = Delay => (i > 1 /\ IsQuery(net_log[i - 1]))

\* the part of C22 the loop of enrich_movies does keep: a delay follows the
\* queries of every name before the queries of the next name
C22_DelayBetweenNames ==
    rate_proc = "GOAT" =>
        \A i \in 1..(Len(net_log) - 1) :
            (net_log[i + 1] = "cinepolis") => net_log[i] = Delay
-----------------------------------------------------------------------------
(***************************************************************************)
(* MovieStandardizer.process_all_records from its first statement: the     *)
(* validation of the input file, then the two passes.                      *)
(***************************************************************************)
t300 == <<"3", "0", "0">>

\* names of films, two of them numbers, and a missing name
AbortNames == { tDUNE, t300, <<"2">>, NaN }

AbortTables == UNION { [1..n -> AbortNames] : n \in 1..MaxRecords }

InitAbort ==
    /\ std_mode = "all_records"
    /\ std_pc = "validate"
    /\ input_file \in {"missing", "unreadable", "no_columns", "ok"}
    /\ input_rows \in (IF input_file = "ok" THEN AbortTables ELSE {<<>>})
    /\ template_rows \in Templates
    /\ read_pos = 0
    /\ unique_catalog = <<>>
    /\ movie_id_counter = 1
    /\ unique_to_id = <<>>
    /\ next_movie_id = 1
    /\ all_records = <<>>
    /\ output = <<>>
    /\ IdleNorm /\ IdleProp /\ IdleGoat /\ IdleCat /\ IdleVal /\ IdleFam /\ IdleAttr /\ IdleRate

\* validate_input_data: the file exists, can be read, and has the four
\* required columns
validate_input_data(file) == file = "ok"

\* process_all_records, lines 431-433
ValidateInputData ==
    /\ std_mode = "all_records" /\ std_pc = "validate"
    /\ std_pc' = IF validate_input_data(input_file) THEN "start" ELSE "aborted"
    /\ UNCHANGED <<std_mode, input_rows, template_rows, read_pos, unique_catalog,
                   movie_id_counter, unique_to_id, next_movie_id, all_records,
                   output>>
    /\ UNCHANGED othersStd

NextAbort == ValidateInputData \/ LoadTemplate \/ Pass1Chunk \/ Pass2Chunk

SpecAbort == InitAbort /\ [][NextAbort]_vars

\* C23: process_all_records aborts exactly when the input table is missing
\* or lacks a required column, and then before pass 1 starts, with no catalog
\* entry created and no output written; missing or malformed field values in
\* an existing table never abort the run.
C23_AbortsOnlyOnMissingInput ==
    /\ input_file # "ok" => std_pc \in {"validate", "aborted"}
    /\ std_pc = "aborted" =>
          /\ input_file # "ok"
          /\ unique_catalog = <<>>
          /\ output = <<>>

\* the part of C23 about a missing, unreadable or incomplete input file
C23_MissingInputAborts ==
    input_file # "ok" =>
        /\ std_pc \in {"validate", "aborted"}
        /\ unique_catalog = <<>>
        /\ output = <<>>
-----------------------------------------------------------------------------
\* the cells propagate_data_within_groups fills: empty cells of a propagated
\* field, in a group with a key, more than one record and a value to give
FilledByPropagation(i, f) ==
    LET k == df_before[i].NOMBRE_UNICO
    IN  /\ f \in fields_to_propagate
        /\ k # Empty
        /\ Cardinality(GroupIdx(df_before, k)) > 1
        /\ df_before[i][f] = Empty
        /\ NonEmptyIdx(df_before, k, f) # {}

\* C24: the value propagate_data_within_groups writes into the empty cells
\* of a field of a group is the most frequent non-empty value of the field
\* in the group and, when several values are equally frequent, the one of
\* them that occurs first in record order.
C24_TieGoesToFirstOccurrence ==
    last_step = "propagate_data_within_groups" =>
        \A i \in 1..Len(df) : \A f \in DOMAIN df[i] :
            FilledByPropagation(i, f) =>
                LET idx == NonEmptyIdx(df_before, df_before[i].NOMBRE_UNICO, f)
                IN  df[i][f] = ValueCountsFirst(df_before, idx, f, "first_seen")

\* the part of C24 about frequency alone: the value written is one of the
\* most frequent non-empty values of the group
C24_MostFrequentValueWins ==
    last_step = "propagate_data_within_groups" =>
        \A i \in 1..Len(df) : \A f \in DOMAIN df[i] :
            FilledByPropagation(i, f) =>
                df[i][f] \in TopValues(df_before,
                                NonEmptyIdx(df_before, df_before[i].NOMBRE_UNICO, f), f)
-----------------------------------------------------------------------------
\* the marker tokens of LANGUAGE_PATTERNS and of FORMAT_PATTERNS
LanguageMarkers == { tESP, tSUB, tDUB, tDOB, tSP }

FormatMarkers == { t4DX, tIMAX, tSCREENX, tXE, t3D, <<"2","D">>, <<"4","D">> }

\* C25: normalize_title_level2 applies the suffix patterns until none
\* matches: its output for a level-1 title ends in no language marker and in
\* no format marker, and applying it to its own output changes nothing.
C25_Level2ReachesFixpoint ==
    nstage \in {"l2", "key", "rekey"} =>
        \A i \in 1..2 :
            /\ \A m \in LanguageMarkers \cup FormatMarkers :
                  ~EndsWithToken(nombre_original_clean[i], m)
            /\ normalize_title_level2(nombre_original_clean[i])
                  = nombre_original_clean[i]

\* the same statement for names with at most one trailing marker
C25_SingleMarker ==
    (nstage \in {"l2", "key", "rekey"} /\ relation = "run"
        /\ \E T \in Titles, m \in Markers : names[1] = Join(T \o <<m>>))
        => /\ \A m \in LanguageMarkers \cup FormatMarkers :
                  ~EndsWithToken(nombre_original_clean[1], m)
           /\ normalize_title_level2(nombre_original_clean[1])
                  = nombre_original_clean[1]
-----------------------------------------------------------------------------
\* the keys of a stream that are not in known, in order of first occurrence
RECURSIVE NewKeysInOrder(_, _)
NewKeysInOrder(keys, known) ==
    IF keys = <<>> THEN <<>>
    ELSE IF Head(keys) \in known THEN NewKeysInOrder(Tail(keys), known)
    ELSE <<Head(keys)>> \o NewKeysInOrder(Tail(keys), known \cup {Head(keys)})

\* the first ID after the loaded ones
NextUnused(ids) == IF ids = {} THEN 1 ELSE Largest(ids) + 1

\* pass 1 of process_all_records is complete: the catalog holds the loaded
\* keys with their IDs and the new non-empty keys of the stream, numbered
\* from the first unused ID in order of first occurrence
Pass1Allocation ==
    (std_mode = "all_records" /\ std_pc \in {"pass2", "done"}) =>
        LET loaded == LoadTemplateRows(template_rows, <<>>, 1).cat
            stream == NotNa(input_rows)
            keys == [i \in 1..Len(stream) |-> Pass1Key(stream[i])]
            fresh == NewKeysInOrder(keys, DOMAIN loaded \cup {<<>>})
            base == NextUnused({ loaded[k].MOVIE_ID : k \in DOMAIN loaded })
        IN  /\ DOMAIN unique_catalog
                  = DOMAIN loaded \cup { fresh[j] : j \in 1..Len(fresh) }
            /\ \A k \in DOMAIN loaded :
                  unique_catalog[k].MOVIE_ID = loaded[k].MOVIE_ID
            /\ \A j \in 1..Len(fresh) :
                  unique_catalog[fresh[j]].MOVIE_ID = base + j - 1

\* process is complete: every record of a loaded key has the loaded ID, and
\* the new keys are numbered from the first unused ID in order of first
\* occurrence
ProcessAllocation ==
    (std_mode = "process" /\ std_pc = "done") =>
        LET loaded == LoadExisting(template_rows, <<>>)
            stream == NotNa(input_rows)
            keys == [i \in 1..Len(stream) |->
                        Upper(Str(process_batch(stream[i]).NOMBRE_UNICO))]
            fresh == NewKeysInOrder(keys, DOMAIN loaded)
            base == NextUnused({ loaded[k] : k \in DOMAIN loaded })
        IN  /\ Len(output) = Len(stream)
            /\ \A i \in 1..Len(stream) :
                  IF keys[i] \in DOMAIN loaded
                  THEN output[i].MOVIE_ID = loaded[keys[i]]
                  ELSE \E j \in 1..Len(fresh) :
                          /\ fresh[j] = keys[i]
                          /\ output[i].MOVIE_ID = base + j - 1

\* whether a run fails does not depend on the chunks: a run that stopped in
\* the first pass would have stopped with the whole stream in one chunk
AbortIndependentOfChunks ==
    std_pc = "aborted" => ~HasStrAccessor(input_rows)

\* C26: in pass 1 of process_all_records and in process, keys of the
\* pre-existing catalog keep their movie_id and each new non-empty key, in
\* order of first occurrence in the stream, gets the next unused positive
\* integer, greater than every ID loaded or allocated before; the result does
\* not depend on how the stream is split into chunks.
C26_AllocationInStreamOrder ==
    Pass1Allocation /\ ProcessAllocation /\ AbortIndependentOfChunks

\* the same statement for the runs that reach the end of the first pass
C26_CompletedRuns == Pass1Allocation /\ ProcessAllocation
-----------------------------------------------------------------------------
\* the catalog key of an output record of the second pass
OutputKey(i) == Upper(output[i].NOMBRE_UNICO)

\* once the second pass has begun, the first pass has scanned every record,
\* and every ID attached to a key of the catalog is the ID of the catalog
C27_AfterBarrier ==
    std_mode = "all_records" =>
        /\ std_pc \in {"pass2", "done"} =>
              \A i \in 1..Len(input_rows) :
                  input_rows[i] # NaN =>
                      \/ Pass1Key(input_rows[i]) = <<>>
                      \/ Pass1Key(input_rows[i]) \in DOMAIN unique_catalog
        /\ output # <<>> => std_pc \in {"pass2", "done"}
        /\ \A i \in 1..Len(output) :
              OutputKey(i) \in DOMAIN unique_catalog =>
                  output[i].MOVIE_ID = unique_catalog[OutputKey(i)].MOVIE_ID

\* the catalog and its counter change only before the second pass, and the
\* output file is written only in the second pass
C27_Step ==
    std_mode = "all_records" =>
        /\ (unique_catalog' # unique_catalog \/ movie_id_counter' # movie_id_counter)
              => std_pc \in {"start", "pass1"}
        /\ output' # output => std_pc = "pass2"

\* C27: in process_all_records the catalog is mutated only during pass 1;
\* pass 2 begins only after pass 1 has scanned every record, only reads the
\* catalog, and every ID it attaches to a key of the catalog is the ID the
\* key had when pass 1 completed.
C27_CatalogFrozenInPass2 == []C27_AfterBarrier /\ [][C27_Step]_vars

\* a run of two chunks is complete and its last record has a catalog ID
C27_Witness ==
    /\ std_mode = "all_records" /\ std_pc = "done"
    /\ Len(input_rows) > ChunkSize
    /\ Len(output) = Len(input_rows)
    /\ OutputKey(Len(output)) \in DOMAIN unique_catalog
    /\ output[Len(output)].MOVIE_ID = unique_catalog[OutputKey(Len(output))].MOVIE_ID
    /\ output[Len(output)].MOVIE_ID > 1
-----------------------------------------------------------------------------
\* C28: in MovieEnricher.process, enrich_missing_data never changes a
\* CATEGORIA, DESCRIPCION, ACTOR_PRINCIPAL or DIRECTOR value that was
\* non-empty when it started: propagation leaves each of these fields of a
\* group empty in all records or non-empty in all records, and enrichment
\* writes a field of a group only when it is empty in every record.
C28_EnrichmentKeepsPropagatedValues ==
    /\ last_step = "propagate_data_within_groups" =>
          \A i, j \in 1..Len(df) : \A f \in enrichment_fields :
              (df[i].NOMBRE_UNICO # Empty /\ df[i].NOMBRE_UNICO = df[j].NOMBRE_UNICO)
                  => (df[i][f] = Empty <=> df[j][f] = Empty)
    /\ last_step = "enrich_missing_data" =>
          \A i \in 1..Len(df) : \A f \in enrichment_fields :
              /\ df_before[i][f] # Empty => df[i][f] = df_before[i][f]
              /\ df[i][f] # df_before[i][f] =>
                    \A j \in GroupIdx(df_before, df_before[i].NOMBRE_UNICO) :
                        df_before[j][f] = Empty

\* enrichment has filled the DIRECTOR of a group of two records and left
\* the CATEGORIA the group already had
C28_Witness ==
    /\ last_step = "enrich_missing_data"
    /\ \E i, j \in 1..Len(df) :
        /\ i # j
        /\ df[i].NOMBRE_UNICO # Empty /\ df[i].NOMBRE_UNICO = df[j].NOMBRE_UNICO
        /\ df_before[i].DIRECTOR = Empty /\ df_before[j].DIRECTOR = Empty
        /\ df[i].DIRECTOR = WebValue /\ df[j].DIRECTOR = WebValue
        /\ df_before[i].CATEGORIA \notin {Empty, WebValue}
        /\ df[i].CATEGORIA = df_before[i].CATEGORIA
-----------------------------------------------------------------------------
\* the fields C29 names
C29Fields == {"CATEGORIA", "DESCRIPCION", "ACTOR_PRINCIPAL", "DIRECTOR",
              "DURACION", "FAMILIA"}

\* C29: after GOATMovieEnricher.process (vertical_replication, then
\* horizontal_replication) all records with the same non-empty NOMBRE_UNICO
\* hold the same value in CATEGORIA, DESCRIPCION, ACTOR_PRINCIPAL, DIRECTOR,
\* DURACION and FAMILIA, also when FAMILIA was empty in the group and was
\* filled from each row's own TITULO_LIMPIO.
C29_GroupsEqualAfterReplication ==
    (pipeline = "GOAT" /\ last_step = "horizontal_replication") =>
        \A i, j \in 1..Len(df) :
            (df[i].NOMBRE_UNICO # Empty /\ df[i].NOMBRE_UNICO = df[j].NOMBRE_UNICO)
                => \A f \in C29Fields : df[i][f] = df[j][f]

\* the same statement without FAMILIA
C29_GroupsEqualExceptFamilia ==
    (pipeline = "GOAT" /\ last_step = "horizontal_replication") =>
        \A i, j \in 1..Len(df) :
            (df[i].NOMBRE_UNICO # Empty /\ df[i].NOMBRE_UNICO = df[j].NOMBRE_UNICO)
                => \A f \in C29Fields \ {"FAMILIA"} : df[i][f] = df[j][f]
-----------------------------------------------------------------------------
(***************************************************************************)
(* IDIOMA after the standardizer: the correction of                        *)
(* EnhancedMoviesProcessor.fix_horizontal_coherence_idioma and check 8 of  *)
(* validate_dataset, on the row extract_language has filled.               *)
(***************************************************************************)
\* s.endswith(' ' + tok)
EndsWithWord(s, tok) ==
    /\ Len(s) > Len(tok)
    /\ SubSeq(s, Len(s) - Len(tok), Len(s)) = <<" ">> \o tok

\* ' ' + tok + ' ' in s
HasSpacedWord(s, tok) == Contains(s, <<" ">> \o tok \o <<" ">>)

\* re.search(r'\btok\b', s)
HasWholeWord(s, tok) ==
    \E i \in 1..(Len(s) - Len(tok) + 1) :
        /\ SubSeq(s, i, i + Len(tok) - 1) = tok
        /\ (i = 1 \/ ~IsWord(s[i - 1]))
        /\ (i + Len(tok) - 1 = Len(s) \/ ~IsWord(s[i + Len(tok)]))

\* the words with ESP inside that the correction excludes
EspWords ==
    { <<"E","S","P","E","C","I","A","L">>, <<"E","S","P","O","S","A">>,
      <<"E","S","P","Í","R","I","T","U">>, <<"E","S","P","A","C","I","O">>,
      <<"E","S","P","E","R","A","N","Z","A">> }

\* fix_horizontal_coherence_idioma on one row: the IDIOMA it leaves
fix_horizontal_coherence_idioma(movie_name, current) ==
    LET movie_name_upper == Upper(Str(movie_name))
        current_idioma == Str(current)
        spaced(tok) == EndsWithWord(movie_name_upper, tok)
                          \/ HasSpacedWord(movie_name_upper, tok)
        kept == IF current_idioma \in {tESP, tSUB, tDOB} THEN current_idioma
                ELSE tESP
    IN  IF spaced(tESP) THEN tESP
        ELSE IF spaced(tSUB) THEN tSUB
        ELSE IF spaced(tDOB) \/ spaced(tDUB) THEN tDOB
        ELSE IF HasWholeWord(movie_name_upper, tESP)
        THEN IF \A w \in EspWords : ~Contains(movie_name_upper, w)
             THEN tESP ELSE kept
        ELSE IF HasWholeWord(movie_name_upper, tSUB) THEN tSUB
        ELSE IF HasWholeWord(movie_name_upper, tDOB)
                \/ HasWholeWord(movie_name_upper, tDUB) THEN tDOB
        ELSE kept

\* validate_dataset, check 8: the row counts as an IDIOMA error
idioma_error(movie_name, row_idioma) ==
    LET name_upper == Upper(Str(movie_name))
        code == Str(row_idioma)
    IN  IF EndsWithWord(name_upper, tESP) /\ code # tESP THEN TRUE
        ELSE IF EndsWithWord(name_upper, tSUB) /\ code # tSUB THEN TRUE
        ELSE (EndsWithWord(name_upper, tDOB) \/ EndsWithWord(name_upper, tDUB))
                /\ code # tDOB

\* the step of process_dataset_complete that corrects IDIOMA, on the row
FixHorizontalCoherenceIdioma ==
    /\ attr_pc = "done"
    /\ idioma' = fix_horizontal_coherence_idioma(row_name, idioma)
    /\ attr_pc' = "fixed"
    /\ UNCHANGED <<row_name, row_format, row_lenguaje, formato>>
    /\ UNCHANGED othersAttr

NextIdioma == ExtractFormat \/ ExtractLanguage \/ FixHorizontalCoherenceIdioma

SpecIdioma == InitAttributes /\ [][NextIdioma]_vars

\* C30: after fix_horizontal_coherence_idioma the IDIOMA of every row is one
\* of ESP, SUB, DUB; a row whose IDIOMA extract_language produced for its
\* MOVIE_NAME is left unchanged by the step and passes the IDIOMA coherence
\* check of the validator.
C30_IdiomaStaysInEnum ==
    attr_pc = "fixed" =>
        /\ idioma \in {tESP, tSUB, tDUB}
        /\ idioma = extract_language(row_name, row_lenguaje)
        /\ ~idioma_error(row_name, extract_language(row_name, row_lenguaje))

\* what the step does keep: the IDIOMA it leaves is one of ESP, SUB, DOB
C30_FixedIdiomaInOwnEnum ==
    attr_pc = "fixed" => idioma \in {tESP, tSUB, tDOB}
=============================================================================
